---- MODULE Spec2Model ----
(***************************************************************************)
(* CCB provider daemons: the per-session serial worker pool, the Codex     *)
(* session worker with its wait loop, and the line-JSON daemon server.     *)
(*                                                                         *)
(*   Spec        unified daemon: _UnifiedWorkerPool + PerSessionWorkerPool *)
(*               + BaseSessionWorker (lib/askd/daemon.py, worker_pool.py)  *)
(*   SpecCaskd   caskd: _WorkerPool and the session lanes of              *)
(*               _SessionWorker.run/_handle_task (caskd_daemon.py)         *)
(*   SpecTask    caskd: one request in time, the wait loop of _handle_task *)
(*               and the connection handler's bounded wait                 *)
(*   SpecServer  AskDaemonServer.serve_forever: single-instance lock,      *)
(*               listener, state file, token gate (askd_server.py)         *)
(*   SpecLife    one daemon of each server class from start to return,     *)
(*               in time: idle monitor, parent monitor, handler threads,   *)
(*               state file clean-up; SpecLifeFair adds fairness           *)
(*   SpecProtocol  ccb_protocol.py: the prompt wrapper and the done-line   *)
(*               readers, called on every short text                       *)
(*   SpecSession  gaskd: one request against the project's session record  *)
(*               with its `active` flag                                    *)
(***************************************************************************)
EXTENDS Integers, Sequences, FiniteSets, TLC

(***************************************************************************)
(* Bounds of the model.                                                    *)
(***************************************************************************)
NTasks == 2

Tasks == 1..NTasks

\* Providers registered with the unified daemon, and the strings that
\* compute_session_key can yield (the same string may come from two providers).
Providers == {"codex", "gemini"}
Keys == {"k1", "k2"}

NoTask == 0
NoWorker == 0

VARIABLES
  \* ---- unified daemon (Spec) ----
  tpc,        \* position of the connection thread that carries task t
  tprov,      \* provider_key of the request
  tkey,       \* session key computed in submit
  tworker,    \* local `worker` of get_or_create
  tcreated,   \* local `created` of get_or_create
  tresult,    \* task.result: "none" | "ok" | "fail"
  tdone,      \* task.done_event
  pools,      \* keys of _UnifiedWorkerPool._pools
  poolLock,   \* PerSessionWorkerPool._lock holder per pool
  workers,    \* PerSessionWorkerPool._workers per pool: key -> worker
  wk,         \* the worker thread objects
  enqOrder,   \* tasks in the order of their Queue.put
  \* ---- caskd session lanes (SpecCaskd) ----
  sess,       \* the project's session record on disk
  paneAlive,  \* panes the terminal lists
  kpc,        \* position of the connection thread that carries task t
  kkey,       \* session key computed in _WorkerPool.submit
  kresult,    \* exit_code of task.result, or NoResult
  kdone,      \* task.done_event
  kw,         \* _WorkerPool._workers: session key -> worker thread
  kenq,       \* tasks in the order of their Queue.put
  \* ---- one caskd request in time (SpecTask) ----
  now,        \* time.time(), in seconds
  spc,        \* position of the connection handler
  timeout_s,  \* req.timeout_s
  wait_until, \* when done_event.wait(timeout) gives up
  signalled,  \* what done_event.wait returned
  resp,       \* the response frame written to the client
  wpc,        \* position of the session worker
  deadline,   \* _handle_task: deadline
  last_pane_check,      \* _handle_task: last_pane_check
  anchor_seen,          \* _handle_task: anchor_seen
  anchor_collect_grace, \* _handle_task: anchor_collect_grace
  chunks,     \* _handle_task: chunks, one line each
  done_seen,  \* _handle_task: done_seen
  wend,       \* the return statement _handle_task left by
  task_result,  \* task.result
  done_event,   \* task.done_event
  \* ---- daemon server (SpecServer) ----
  dpc,        \* position of each daemon process in serve_forever
  parent_pid, \* AskDaemonServer.parent_pid, 0 when there is none
  parent_alive,   \* whether the parent process is alive
  lock_holder,    \* the process holding the single-instance lock
  listener,       \* daemons whose listening socket is open
  state_file,     \* pid recorded in the state file
  shutdown_requested, \* daemons whose httpd.shutdown was called
  pmon,       \* position of each daemon's parent monitor thread
  ret,        \* what serve_forever returned
  bound_ever, \* daemons that ever bound a listener
  state_touched,  \* daemons that ever wrote or deleted the state file
  cpc,        \* position of each client connection
  cdaemon,    \* the daemon a connection reached
  frame,      \* the line the client sent
  cresp,      \* the line the daemon answered
  cprior,     \* accepted after the daemon had answered "Unauthorized"
  handler_called, \* connections passed to request_handler
  shutdown_by,    \* connections whose frame started httpd.shutdown
  \* ---- one daemon's life in time (SpecLife) ----
  variant,    \* which server class runs
  managed,    \* self.managed
  ppid,       \* self.parent_pid, 0 when there is none
  ppid_alive, \* whether that process exists
  idle_timeout_s, \* httpd.idle_timeout_s in ticks
  mpc,        \* position of the main thread in serve_forever
  statefile,  \* what the state file records
  lockheld,   \* this process holds the single-instance lock
  listening,  \* the listening socket is open
  active_requests, \* httpd.active_requests
  idle_for,   \* time.time() - httpd.last_activity, up to the idle timeout
  imon,       \* position of the idle monitor thread
  im_active,  \* the monitor's local `active`
  im_idle_for, \* time.time() - the monitor's local `last`
  im_slept,   \* the idle monitor's sleep has run out
  pmonitor,   \* position of the parent monitor thread
  pm_slept,   \* the parent monitor's sleep has run out
  shutdown_request, \* httpd.shutdown has been called
  requested_by, \* how many shutdown threads each requester started
  dead_for,   \* ticks the monitor has run with the parent gone, else NotDead
  pm_delay,   \* dead_for when the parent monitor asked for shutdown
  hpc,        \* position of each handler thread
  hkind,      \* what each connection asked
  hreply,     \* exit code each handler answered
  hwait,      \* ticks left of each handler's bounded wait
  retcode,    \* what serve_forever returned
  \* ---- ccb_protocol.py called on its own (SpecProtocol) ----
  p_text,     \* the `text` argument, as lines
  p_message,  \* the `message` argument, as lines
  p_req_id,   \* the `req_id` argument
  p_called,   \* the function that was called, "none" before
  p_result,   \* what it returned
  \* ---- one gaskd request and its session record (SpecSession) ----
  g_pc,       \* position of _handle_task
  g_session,  \* the session object load_project_session returned
  g_pane,     \* the pane ensure_pane resolved
  g_injected, \* a prompt was sent into the pane
  g_exit,     \* exit_code of the result
  \* ---- req ids of the tasks of one daemon process (SpecReqId) ----
  q_tasks,    \* the tasks submitted so far: their req_id and where it came from
  \* ---- the session key across a rotation (SpecKey) ----
  s_keys,     \* the submits so far: the record each one read and its key
  s_rot,      \* the identifier that was rewritten in between, "none" before
  \* ---- askd_rpc._recv_with_deadline in 0.5 s ticks (SpecRecv) ----
  rv_pc,      \* position in the function, or how it ended
  rv_now,     \* time.time()
  rv_deadline,  \* the `deadline` argument
  rv_bufsize,   \* the `bufsize` argument
  rv_max_bytes, \* the `max_bytes` argument
  rv_buf,     \* the local `buf`
  rv_timeout, \* what sock.settimeout was given
  rv_waited,  \* for how long the current sock.recv has blocked
  rv_closed,  \* sock.recv returned b"": the peer closed
  \* ---- the daemon's log of the one caskd request (SpecTask) ----
  wlog,       \* the lines _write_log appended for the request, in order
  \* ---- two starts of the mail daemon (SpecMail) ----
  ml_pc,      \* position of each process in MailDaemon.start
  ml_state,   \* is_daemon_running's local `state`: the pid it read, or none
  ml_touched, \* the process has written or removed the state or pid file
  mail_state_file, \* pid recorded in the state file, or none
  mail_pid_file,   \* pid recorded in the pid file, or none
  \* ---- the transcript and caskd's reader in 0.5 s ticks (SpecReply) ----
  x_pc,       \* position of _handle_task: "off" | "loop" | "return"
  x_now,      \* time since the prompt was sent
  x_tr,       \* the transcript: the entries the TUI has logged, in order
  x_cursor,   \* capture_state(): how many entries the log held then
  x_rpos,     \* `state`: how many entries the reader has passed
  x_stale,    \* the reader's binding is to a log the TUI has left
  x_filter,   \* codex_session_id: a session id filter is set
  x_waited,   \* for how long the current wait_for_event has blocked
  x_anchor_seen, \* local anchor_seen
  x_rebounded,   \* local rebounded
  x_saw_any_event, \* local saw_any_event
  x_saw_in_grace, \* an event was handed out before anchor_grace_deadline
  x_chunks,   \* local chunks: the entries collected, with their places
  \* ---- one session key's queue and its submitters (SpecQueue) ----
  qt_now,      \* the clock, in seconds
  qt_q,        \* BaseSessionWorker._q: the tasks queued, oldest first
  qt_handler,  \* per task, its submitter: "none" | "waiting" | "answered"
  qt_timeout,  \* per task, req.timeout_s
  qt_until,    \* per task, when the submitter's done_event.wait gives up
  qt_exit,     \* per task, the exit_code its submitter answered
  qt_done,     \* per task, done_event is set
  qt_wpc,      \* the worker: "get" | "handle" | "loop"
  qt_cur,      \* the task the worker took from the queue
  qt_deadline, \* deadline of the task the worker handles
  qt_sent,     \* the tasks whose prompt was sent to the pane
  \* ---- the cursor the escape hatch computes (SpecTail) ----
  tl_pc,         \* "env" | "hatch" | "placed" | "raised"
  tl_env,        \* CCB_CASKD_REBIND_TAIL_BYTES in the environment
  tl_log,        \* reader.current_log_path() names a log
  tl_stat_ok,    \* log_path.stat() succeeds
  tl_size,       \* st_size of that log
  tl_tail_bytes, \* local tail_bytes
  tl_offset,     \* state["offset"] after the hatch
  \* ---- the interrupt check on the captured pane text (SpecPane) ----
  pn_pc,        \* "check" | "abandoned" | "goes_on"
  pn_get_text,  \* the backend: "missing" (no get_text) | "raises" | "ok"
  pn_text,      \* what get_text(pane_id, lines=15) returns, piece by piece
  \* ---- the Gemini session file and its reader (SpecGemini) ----
  gm_pc,         \* "stat" | "read" | "wait" | "returned" | "timedout"
  gm_msgs,       \* data["messages"] of the last complete write
  gm_pending,    \* the messages of the write in progress
  gm_writing,    \* the file is being re-written in place: json.load fails
  gm_size,       \* st_size of the file
  gm_mtime,      \* st_mtime_ns of the file
  gm_clock,      \* the file system's clock
  gm_unknown,    \* unknown_baseline
  gm_prev_count, \* prev_count / state["msg_count"]
  gm_prev_mtime, \* prev_mtime_ns
  gm_prev_size,  \* prev_size
  gm_prev_last,  \* prev_last_gemini_id and prev_last_gemini_hash
  gm_at_stat,    \* the messages the file held when capture_state called stat
  gm_result,     \* which message was returned as the reply
  \* ---- one OpenCode task and a direct-mode client (SpecOpenCode) ----
  oc_pc,           \* "acquire" | "load" | "pane" | "backend" | "send" | "loop" | "finally" | "done"
  oc_timeout_s,    \* req.timeout_s
  oc_lock_timeout, \* the timeout the ProviderLock was made with
  oc_holder,       \* who holds the lock session:<key>: "none" | "daemon" | "direct"
  oc_injected,     \* how often the task sent its prompt to the pane
  oc_end,          \* how _handle_task ended
  oc_exit_code,    \* exit_code of task.result
  oc_direct,       \* prompts the direct-mode client has sent
  \* ---- the autoloop supervisor and its two JSON files (SpecAutoloop) ----
  al_pc,           \* "off" | "poll" | "eval" | "sleep5" | "clear" | "sleep2" | "tr" | "write"
  al_mode,         \* "none" | "daemon" | "once": the entry point of main last run
  al_clock,        \* time.time(), in seconds
  al_pane,         \* whether _get_pane_id finds a pane id
  st_exists,       \* state.json exists and loads as a non-empty object
  st_cursor,       \* state.json: current (NoCursor is the type "none")
  st_steps,        \* state.json: steps ("notalist" | "todo" | "alldone")
  st_mtime,        \* state.json: st_mtime, a new one with every write
  sv_last_cursor,  \* autoloop_state.json: last_cursor (Missing when not a dict)
  sv_task_complete,\* autoloop_state.json: task_complete
  sv_last_ts,      \* autoloop_state.json: last_trigger_ts
  al_last_mtime,   \* daemon: last_mtime (NoMtime is None)
  al_cursor,       \* the cursor the running evaluation read
  al_usage,        \* get_context_percent of the running trigger
  al_events,       \* what the running trigger has done so far, in order
  al_last_tr,      \* when /tr was last injected (NeverTr before the first)
  al_tr_cursor,    \* the cursor of the evaluation that last injected /tr
  \* ---- the Droid JSONL tailer and its session files (SpecDroid) ----
  dr_files,        \* the bytes of each session file
  dr_latest,       \* what _latest_session returns (NoSessionPath: none exists)
  dr_captured,     \* whether capture_state has run
  dr_path,         \* state["session_path"]
  dr_offset,       \* state["offset"]
  dr_carry,        \* state["carry"]
  dr_cap,          \* the offset the bound file has been read from
  dr_shrunk,       \* the bound file lost bytes the tailer had read
  dr_parsed,       \* the lines handed to json.loads since the file was bound
  dr_joined        \* a line was parsed whose first part had waited in the carry

poolVars == <<tpc, tprov, tkey, tworker, tcreated, tresult, tdone,
              pools, poolLock, workers, wk, enqOrder>>

laneVars == <<sess, paneAlive, kpc, kkey, kresult, kdone, kw, kenq>>

taskVars == <<now, spc, timeout_s, wait_until, signalled, resp, wpc, deadline,
              last_pane_check, anchor_seen, anchor_collect_grace, chunks,
              done_seen, wend, task_result, done_event>>

daemonVars == <<dpc, parent_pid, parent_alive, lock_holder, listener,
                state_file, shutdown_requested, pmon, ret, bound_ever,
                state_touched>>
connVars == <<cpc, cdaemon, frame, cresp, cprior, handler_called, shutdown_by>>
srvVars == <<daemonVars, connVars>>
lifeVars == <<variant, managed, ppid, ppid_alive, idle_timeout_s, mpc, statefile,
              lockheld, listening, active_requests, idle_for, imon, im_active,
              im_idle_for, im_slept, pmonitor, pm_slept, shutdown_request,
              requested_by, dead_for, pm_delay, hpc, hkind, hreply, hwait,
              retcode>>

protoVars == <<p_text, p_message, p_req_id, p_called, p_result>>

sessVars == <<g_pc, g_session, g_pane, g_injected, g_exit>>

reqVars == <<q_tasks>>

keyVars == <<s_keys, s_rot>>

recvVars == <<rv_pc, rv_now, rv_deadline, rv_bufsize, rv_max_bytes, rv_buf,
              rv_timeout, rv_waited, rv_closed>>

logVars == <<wlog>>

mailVars == <<ml_pc, ml_state, ml_touched, mail_state_file, mail_pid_file>>

replyVars == <<x_pc, x_now, x_tr, x_cursor, x_rpos, x_stale, x_filter, x_waited,
               x_anchor_seen, x_rebounded, x_saw_any_event, x_saw_in_grace, x_chunks>>

queueVars == <<qt_now, qt_q, qt_handler, qt_timeout, qt_until, qt_exit, qt_done,
               qt_wpc, qt_cur, qt_deadline, qt_sent>>

tailVars == <<tl_pc, tl_env, tl_log, tl_stat_ok, tl_size, tl_tail_bytes, tl_offset>>

paneVars == <<pn_pc, pn_get_text, pn_text>>

gemVars == <<gm_pc, gm_msgs, gm_pending, gm_writing, gm_size, gm_mtime, gm_clock,
             gm_unknown, gm_prev_count, gm_prev_mtime, gm_prev_size, gm_prev_last,
             gm_at_stat, gm_result>>

ocVars == <<oc_pc, oc_timeout_s, oc_lock_timeout, oc_holder, oc_injected, oc_end,
            oc_exit_code, oc_direct>>

alVars == <<al_pc, al_mode, al_clock, al_pane, st_exists, st_cursor, st_steps,
            st_mtime, sv_last_cursor, sv_task_complete, sv_last_ts, al_last_mtime,
            al_cursor, al_usage, al_events, al_last_tr, al_tr_cursor>>

drVars == <<dr_files, dr_latest, dr_captured, dr_path, dr_offset, dr_carry,
            dr_cap, dr_shrunk, dr_parsed, dr_joined>>

vars == <<poolVars, laneVars, taskVars, srvVars, lifeVars, protoVars,
          sessVars, reqVars, keyVars, recvVars, logVars, mailVars,
          replyVars, queueVars, tailVars, paneVars, gemVars, ocVars,
          alVars, drVars>>

\* What the unified daemon's steps leave alone.
notPool == <<laneVars, taskVars, srvVars, lifeVars, protoVars,
             sessVars, reqVars, keyVars, recvVars, logVars,
             mailVars, replyVars, queueVars, tailVars, paneVars,
             gemVars, ocVars, alVars, drVars>>
\* What the caskd lane steps leave alone.
notLane == <<poolVars, taskVars, srvVars, lifeVars, protoVars,
             sessVars, reqVars, keyVars, recvVars, logVars,
             mailVars, replyVars, queueVars, tailVars, paneVars,
             gemVars, ocVars, alVars, drVars>>
\* What the steps of the single caskd request leave alone.
notTask == <<poolVars, laneVars, srvVars, lifeVars, protoVars,
             sessVars, reqVars, keyVars, recvVars, logVars,
             mailVars, replyVars, queueVars, tailVars, paneVars,
             gemVars, ocVars, alVars, drVars>>
\* What the daemon server's steps leave alone.
notSrv == <<poolVars, laneVars, taskVars, lifeVars, protoVars,
            sessVars, reqVars, keyVars, recvVars, logVars,
            mailVars, replyVars, queueVars, tailVars, paneVars,
            gemVars, ocVars, alVars, drVars>>
\* What the steps of the daemon's life in time leave alone.
notLife == <<poolVars, laneVars, taskVars, srvVars, protoVars,
             sessVars, reqVars, keyVars, recvVars, logVars,
             mailVars, replyVars, queueVars, tailVars, paneVars,
             gemVars, ocVars, alVars, drVars>>
\* What a call of a ccb_protocol.py function leaves alone.
notProto == <<poolVars, laneVars, taskVars, srvVars, lifeVars,
              sessVars, reqVars, keyVars, recvVars, logVars,
              mailVars, replyVars, queueVars, tailVars, paneVars,
              gemVars, ocVars, alVars, drVars>>

(***************************************************************************)
(* worker_pool.py / askd/daemon.py                                         *)
(***************************************************************************)
\* A worker object that was never constructed.
NoWorkerObj ==
  [exists |-> FALSE, pool |-> "", key |-> "", started |-> FALSE, alive |-> FALSE,
   q |-> <<>>, cur |-> NoTask, phase |-> "idle"]

\* BaseSessionWorker.__init__: a fresh thread object with an empty queue.
NewWorker(p, k) ==
  [exists |-> TRUE, pool |-> p, key |-> k, started |-> FALSE, alive |-> FALSE,
   q |-> <<>>, cur |-> NoTask, phase |-> "idle"]

\* _UnifiedWorkerPool._get_pool: one PerSessionWorkerPool per provider key.
PoolOfShared(provider_key) == "codex"
PoolOf(provider_key) == provider_key

\* `with self._lock:` of PerSessionWorkerPool.get_or_create may be entered.
LockFreeAlways(p) == TRUE
LockFree(p) == poolLock[p] = NoTask

\* queue.Queue.get: the oldest element is removed and returned.
QueuePopNewest(q) == [task |-> q[Len(q)], rest |-> SubSeq(q, 1, Len(q) - 1)]
QueuePop(q) == [task |-> Head(q), rest |-> Tail(q)]

PoolInit ==
  /\ tpc = [t \in Tasks |-> "idle"]
  /\ tprov = [t \in Tasks |-> "codex"]
  /\ tkey = [t \in Tasks |-> "k1"]
  /\ tworker = [t \in Tasks |-> NoWorker]
  /\ tcreated = [t \in Tasks |-> FALSE]
  /\ tresult = [t \in Tasks |-> "none"]
  /\ tdone = [t \in Tasks |-> FALSE]
  /\ pools = {}
  /\ poolLock = [p \in Providers |-> NoTask]
  /\ workers = [p \in Providers |-> [k \in Keys |-> NoWorker]]
  /\ wk = [w \in Tasks |-> NoWorkerObj]
  /\ enqOrder = <<>>

\* _UnifiedWorkerPool.submit, up to the pool: the adapter is looked up, the
\* task is built, the session is loaded and its key computed, and _get_pool
\* returns (creating it under _UnifiedWorkerPool._lock) the provider's pool.
\* Task ids are names only: they are handed out in the order of the calls.
submit(t) ==
  /\ tpc[t] = "idle"
  /\ \A u \in Tasks : u < t => tpc[u] # "idle"
  /\ \E p \in Providers, k \in Keys :
       /\ tprov' = [tprov EXCEPT ![t] = p]
       /\ tkey' = [tkey EXCEPT ![t] = k]
       /\ pools' = pools \cup {PoolOf(p)}
  /\ tpc' = [tpc EXCEPT ![t] = "goc_lock"]
  /\ UNCHANGED <<tworker, tcreated, tresult, tdone, poolLock,
                 workers, wk, enqOrder>>
  /\ UNCHANGED notPool

\* get_or_create: `with self._lock:` is entered and
\* worker = self._workers.get(session_key) is read.
goc_lock(t) ==
  /\ tpc[t] = "goc_lock"
  /\ LockFree(PoolOf(tprov[t]))
  /\ poolLock' = [poolLock EXCEPT ![PoolOf(tprov[t])] = t]
  /\ tworker' = [tworker EXCEPT ![t] = workers[PoolOf(tprov[t])][tkey[t]]]
  /\ tpc' = [tpc EXCEPT ![t] = "goc_create"]
  /\ UNCHANGED <<tprov, tkey, tcreated, tresult, tdone, pools,
                 workers, wk, enqOrder>>
  /\ UNCHANGED notPool

\* get_or_create: if worker is None: factory, insert, created = True; then the
\* lock is left.  The worker built by the thread of task t is worker t.
goc_create(t) ==
  /\ tpc[t] = "goc_create"
  /\ IF tworker[t] = NoWorker
       THEN /\ wk' = [wk EXCEPT ![t] = NewWorker(PoolOf(tprov[t]), tkey[t])]
            /\ workers' = [workers EXCEPT ![PoolOf(tprov[t])][tkey[t]] = t]
            /\ tworker' = [tworker EXCEPT ![t] = t]
            /\ tcreated' = [tcreated EXCEPT ![t] = TRUE]
       ELSE UNCHANGED <<wk, workers, tworker, tcreated>>
  /\ poolLock' = [poolLock EXCEPT ![PoolOf(tprov[t])] = NoTask]
  /\ tpc' = [tpc EXCEPT ![t] = "goc_start"]
  /\ UNCHANGED <<tprov, tkey, tresult, tdone, pools, enqOrder>>
  /\ UNCHANGED notPool

\* get_or_create: if created: worker.start(); return worker
goc_start(t) ==
  /\ tpc[t] = "goc_start"
  /\ IF tcreated[t]
       THEN wk' = [wk EXCEPT ![tworker[t]].started = TRUE,
                             ![tworker[t]].alive = TRUE]
       ELSE UNCHANGED wk
  /\ tpc' = [tpc EXCEPT ![t] = "enqueue"]
  /\ UNCHANGED <<tprov, tkey, tworker, tcreated, tresult, tdone, pools,
                 poolLock, workers, enqOrder>>
  /\ UNCHANGED notPool

\* submit: worker.enqueue(task) (BaseSessionWorker.enqueue: self._q.put(task));
\* the caller then blocks on task.done_event.
enqueue(t) ==
  /\ tpc[t] = "enqueue"
  /\ wk' = [wk EXCEPT ![tworker[t]].q = Append(@, t)]
  /\ enqOrder' = Append(enqOrder, t)
  /\ tpc' = [tpc EXCEPT ![t] = "submitted"]
  /\ UNCHANGED <<tprov, tkey, tworker, tcreated, tresult, tdone, pools,
                 poolLock, workers>>
  /\ UNCHANGED notPool

\* BaseSessionWorker.run: task = self._q.get(timeout=0.2)
run_get(w) ==
  /\ wk[w].started /\ wk[w].alive
  /\ wk[w].phase = "idle"
  /\ wk[w].q # <<>>
  /\ wk' = [wk EXCEPT ![w].cur = QueuePop(wk[w].q).task,
                      ![w].q = QueuePop(wk[w].q).rest,
                      ![w].phase = "handling"]
  /\ UNCHANGED <<tpc, tprov, tkey, tworker, tcreated, tresult, tdone,
                 pools, poolLock, workers, enqOrder>>
  /\ UNCHANGED notPool

\* run: task.result = self._handle_task(task), the handler returning.
handle_return(w) ==
  /\ wk[w].phase = "handling"
  /\ tresult' = [tresult EXCEPT ![wk[w].cur] = "ok"]
  /\ wk' = [wk EXCEPT ![w].phase = "finally"]
  /\ UNCHANGED <<tpc, tprov, tkey, tworker, tcreated, tdone, pools,
                 poolLock, workers, enqOrder>>
  /\ UNCHANGED notPool

\* run: self._handle_task(task) raises; control enters `except Exception`.
handle_raise(w) ==
  /\ wk[w].phase = "handling"
  /\ wk' = [wk EXCEPT ![w].phase = "except"]
  /\ UNCHANGED <<tpc, tprov, tkey, tworker, tcreated, tresult, tdone,
                 pools, poolLock, workers, enqOrder>>
  /\ UNCHANGED notPool

\* run: task.result = self._handle_exception(exc, task), returning.
except_return(w) ==
  /\ wk[w].phase = "except"
  /\ tresult' = [tresult EXCEPT ![wk[w].cur] = "fail"]
  /\ wk' = [wk EXCEPT ![w].phase = "finally"]
  /\ UNCHANGED <<tpc, tprov, tkey, tworker, tcreated, tdone, pools,
                 poolLock, workers, enqOrder>>
  /\ UNCHANGED notPool

\* run: self._handle_exception(exc, task) raises itself (the adapter's
\* handle_exception or the log write); nothing is assigned to task.result.
except_raise(w) ==
  /\ wk[w].phase = "except"
  /\ wk' = [wk EXCEPT ![w].phase = "finally_raising"]
  /\ UNCHANGED <<tpc, tprov, tkey, tworker, tcreated, tresult, tdone,
                 pools, poolLock, workers, enqOrder>>
  /\ UNCHANGED notPool

\* run: finally: task.done_event.set(), then the loop goes on.
finally_set(w) ==
  /\ wk[w].phase = "finally"
  /\ tdone' = [tdone EXCEPT ![wk[w].cur] = TRUE]
  /\ wk' = [wk EXCEPT ![w].phase = "idle", ![w].cur = NoTask]
  /\ UNCHANGED <<tpc, tprov, tkey, tworker, tcreated, tresult, pools,
                 poolLock, workers, enqOrder>>
  /\ UNCHANGED notPool

\* run: finally: task.done_event.set() while the second exception is in
\* flight; it then leaves run() and the thread ends.
finally_raising(w) ==
  /\ wk[w].phase = "finally_raising"
  /\ tdone' = [tdone EXCEPT ![wk[w].cur] = TRUE]
  /\ wk' = [wk EXCEPT ![w].phase = "dead", ![w].alive = FALSE]
  /\ UNCHANGED <<tpc, tprov, tkey, tworker, tcreated, tresult, pools,
                 poolLock, workers, enqOrder>>
  /\ UNCHANGED notPool

(***************************************************************************)
(* caskd_daemon.py: _WorkerPool and _SessionWorker, with the session       *)
(* record helpers (gaskd_session.py has the chain the Codex one shares).   *)
(* The wait loop is kept to its outcomes here; SpecTask has it in detail.  *)
(***************************************************************************)
Panes == {"p1"}

\* Title every pane of the project carries (pane_title_marker).
PaneTitle == [p \in Panes |-> "m1"]

SessionFile == "f"

NoRec == [exists |-> FALSE, terminal |-> "", marker |-> "", pane |-> "", sid |-> ""]
RecPane == [exists |-> TRUE, terminal |-> "wezterm", marker |-> "", pane |-> "p1", sid |-> ""]
RecMarker == [exists |-> TRUE, terminal |-> "wezterm", marker |-> "m1", pane |-> "p1", sid |-> "s1"]
RecStale == [exists |-> TRUE, terminal |-> "wezterm", marker |-> "m1", pane |-> "p0", sid |-> "s1"]

\* Contents the session file is given by the launcher and lifecycle tooling.
SessionRecords == {NoRec, RecPane, RecMarker, RecStale}

UnknownKey == <<"codex", "unknown">>

\* task.result is None.
NoResult == -1

\* compute_session_key: marker, else pane id, else provider session id, else
\* the session file.
compute_session_key(session) ==
  IF session.marker # "" THEN <<"marker", session.marker>>
  ELSE IF session.pane # "" THEN <<"pane", session.pane>>
  ELSE IF session.sid # "" THEN <<"sid", session.sid>>
  ELSE <<"file", SessionFile>>

\* _WorkerPool.submit: compute_session_key(session) if session else "codex:unknown"
SubmitKey(session) ==
  IF session.exists THEN compute_session_key(session) ELSE UnknownKey

LaneKeys == {SubmitKey(r) : r \in SessionRecords}

\* backend.find_pane_by_title_marker: a listed pane with that title, or "".
find_pane_by_title_marker(marker) ==
  IF \E p \in paneAlive : PaneTitle[p] = marker
    THEN CHOOSE p \in paneAlive : PaneTitle[p] = marker
    ELSE ""

\* session.ensure_pane: the recorded pane if alive, else the pane found by the
\* title marker (which is then written back), else failure.
ensure_pane(session) ==
  IF session.pane # "" /\ session.pane \in paneAlive
    THEN [ok |-> TRUE, pane |-> session.pane, wrote |-> FALSE]
  ELSE IF session.marker # "" /\ find_pane_by_title_marker(session.marker) # ""
    THEN [ok |-> TRUE, pane |-> find_pane_by_title_marker(session.marker), wrote |-> TRUE]
  ELSE [ok |-> FALSE, pane |-> "", wrote |-> FALSE]

NoLane == [exists |-> FALSE, q |-> <<>>, cur |-> NoTask, phase |-> "idle", pane |-> ""]

\* _SessionWorker.run is ready for self._q.get to hand it a task.
LaneFreeOrWaiting(w) == w.phase \in {"idle", "loop"} /\ w.q # <<>>
LaneFree(w) == w.phase = "idle" /\ w.q # <<>>

\* The lane variables while another specification runs.
LaneIdle ==
  /\ sess = NoRec
  /\ paneAlive = Panes
  /\ kpc = [t \in Tasks |-> "idle"]
  /\ kkey = [t \in Tasks |-> UnknownKey]
  /\ kresult = [t \in Tasks |-> NoResult]
  /\ kdone = [t \in Tasks |-> FALSE]
  /\ kw = [k \in LaneKeys |-> NoLane]
  /\ kenq = <<>>

LaneInit ==
  /\ sess \in SessionRecords
  /\ paneAlive = Panes
  /\ kpc = [t \in Tasks |-> "idle"]
  /\ kkey = [t \in Tasks |-> UnknownKey]
  /\ kresult = [t \in Tasks |-> NoResult]
  /\ kdone = [t \in Tasks |-> FALSE]
  /\ kw = [k \in LaneKeys |-> NoLane]
  /\ kenq = <<>>

\* The session file is rewritten from outside the daemon.
k_rewrite(r) ==
  /\ r # sess
  /\ sess' = r
  /\ UNCHANGED <<paneAlive, kpc, kkey, kresult, kdone, kw, kenq>>
  /\ UNCHANGED notLane

\* A pane is closed.
k_pane_dies(p) ==
  /\ p \in paneAlive
  /\ paneAlive' = paneAlive \ {p}
  /\ UNCHANGED <<sess, kpc, kkey, kresult, kdone, kw, kenq>>
  /\ UNCHANGED notLane

\* _WorkerPool.submit: the task is built, the session loaded, its key computed.
k_submit(t) ==
  /\ kpc[t] = "idle"
  /\ \A u \in Tasks : u < t => kpc[u] # "idle"
  /\ kkey' = [kkey EXCEPT ![t] = SubmitKey(sess)]
  /\ kpc' = [kpc EXCEPT ![t] = "keyed"]
  /\ UNCHANGED <<sess, paneAlive, kresult, kdone, kw, kenq>>
  /\ UNCHANGED notLane

\* _WorkerPool.submit: under the lock the key's worker is looked up, or built
\* and started; then worker.enqueue(task); the caller blocks on done_event.
k_enqueue(t) ==
  /\ kpc[t] = "keyed"
  /\ kw' = [kw EXCEPT ![kkey[t]].exists = TRUE,
                      ![kkey[t]].q = Append(@, t)]
  /\ kenq' = Append(kenq, t)
  /\ kpc' = [kpc EXCEPT ![t] = "wait"]
  /\ UNCHANGED <<sess, paneAlive, kkey, kresult, kdone>>
  /\ UNCHANGED notLane

\* _SessionWorker.run: task = self._q.get(timeout=0.2)
k_get(k) ==
  /\ kw[k].exists
  /\ LaneFree(kw[k])
  /\ kw' = [kw EXCEPT ![k].cur = Head(kw[k].q),
                      ![k].q = Tail(kw[k].q),
                      ![k].phase = "start",
                      ![k].pane = ""]
  /\ UNCHANGED <<sess, paneAlive, kpc, kkey, kresult, kdone, kenq>>
  /\ UNCHANGED notLane

\* _handle_task, up to the prompt: the session is loaded again, the terminal
\* kind checked and the pane ensured; each failure returns an exit_code 1
\* result, which run stores in task.result.
k_prepare(k) ==
  /\ kw[k].phase = "start"
  /\ LET t == kw[k].cur
         e == ensure_pane(sess)
     IN  IF ~sess.exists
           THEN /\ kresult' = [kresult EXCEPT ![t] = 1]
                /\ kw' = [kw EXCEPT ![k].phase = "finally"]
                /\ UNCHANGED sess
         ELSE IF sess.terminal \notin {"wezterm", "iterm2"}
           THEN /\ kresult' = [kresult EXCEPT ![t] = 1]
                /\ kw' = [kw EXCEPT ![k].phase = "finally"]
                /\ UNCHANGED sess
         ELSE IF ~e.ok
           THEN /\ kresult' = [kresult EXCEPT ![t] = 1]
                /\ kw' = [kw EXCEPT ![k].phase = "finally"]
                /\ UNCHANGED sess
         ELSE /\ kw' = [kw EXCEPT ![k].phase = "capture", ![k].pane = e.pane]
              /\ sess' = IF e.wrote THEN [sess EXCEPT !.pane = e.pane] ELSE sess
              /\ UNCHANGED kresult
  /\ UNCHANGED <<paneAlive, kpc, kkey, kdone, kenq>>
  /\ UNCHANGED notLane

\* _handle_task: state = reader.capture_state()
k_capture(k) ==
  /\ kw[k].phase = "capture"
  /\ kw' = [kw EXCEPT ![k].phase = "send"]
  /\ UNCHANGED <<sess, paneAlive, kpc, kkey, kresult, kdone, kenq>>
  /\ UNCHANGED notLane

\* _handle_task: backend.send_text(pane_id, prompt); the wait loop starts.
k_send(k) ==
  /\ kw[k].phase = "send"
  /\ kw' = [kw EXCEPT ![k].phase = "loop"]
  /\ UNCHANGED <<sess, paneAlive, kpc, kkey, kresult, kdone, kenq>>
  /\ UNCHANGED notLane

\* backend.send_text raises: run's except clause stores the exit_code 1 result.
k_send_raises(k) ==
  /\ kw[k].phase = "send"
  /\ kresult' = [kresult EXCEPT ![kw[k].cur] = 1]
  /\ kw' = [kw EXCEPT ![k].phase = "finally"]
  /\ UNCHANGED <<sess, paneAlive, kpc, kkey, kdone, kenq>>
  /\ UNCHANGED notLane

\* _handle_task: the wait loop ends, by the done line (exit_code 0), the
\* deadline (2) or the interruption banner (1), and the result is returned
\* and stored in task.result.
k_loop_ends(k) ==
  /\ kw[k].phase = "loop"
  /\ \E exit_code \in {0, 2, 1} :
       kresult' = [kresult EXCEPT ![kw[k].cur] = exit_code]
  /\ kw' = [kw EXCEPT ![k].phase = "finally"]
  /\ UNCHANGED <<sess, paneAlive, kpc, kkey, kdone, kenq>>
  /\ UNCHANGED notLane

\* _handle_task: the liveness probe finds the pane gone.
k_pane_died(k) ==
  /\ kw[k].phase = "loop"
  /\ kw[k].pane \notin paneAlive
  /\ kresult' = [kresult EXCEPT ![kw[k].cur] = 1]
  /\ kw' = [kw EXCEPT ![k].phase = "finally"]
  /\ UNCHANGED <<sess, paneAlive, kpc, kkey, kdone, kenq>>
  /\ UNCHANGED notLane

\* run: finally: task.done_event.set()
k_finally(k) ==
  /\ kw[k].phase = "finally"
  /\ kdone' = [kdone EXCEPT ![kw[k].cur] = TRUE]
  /\ kw' = [kw EXCEPT ![k].phase = "idle", ![k].cur = NoTask]
  /\ UNCHANGED <<sess, paneAlive, kpc, kkey, kresult, kenq>>
  /\ UNCHANGED notLane

(***************************************************************************)
(* caskd_daemon.py in time: one request from the connection handler        *)
(* through _SessionWorker._handle_task and back; ccb_protocol.py decides   *)
(* whether the collected text is complete.                                 *)
(***************************************************************************)
MaxTimeout == 3
MaxChunks == 2

\* done_event.wait(timeout=req.timeout_s + 5.0)
WaitSlack == 5

\* Values of req.timeout_s, in seconds.
TimeoutValues == 1..MaxTimeout
\* timeout_s=float(msg.get("timeout_s") or 300.0) keeps a negative number as
\* it is: one whose wait of timeout_s + 5.0 is still positive, one whose wait
\* is negative too.
NegativeTimeouts == {-1, -(WaitSlack + 1)}

\* The handler's wait: req.timeout_s + 5.0
WaitTimeoutLonger(t_s) == t_s + WaitSlack + 1
WaitTimeout(t_s) == t_s + WaitSlack

\* CCB_CASKD_PANE_CHECK_INTERVAL, default "2.0"
PaneCheckInterval == 2
\* anchor_collect_grace = min(deadline, time.time() + 2.0)
AnchorCollectGrace == 2

\* The clock of the model stops after the longest bounded wait.
MaxNow == MaxTimeout + WaitSlack + 1

\* task.req_id, and the req id of some other request of the same pane.
req_id == "r1"
ReqIds == {"r1", "r2"}

\* Lines of assistant text: blank, ordinary text, or "CCB_DONE: <id>".
DONE_PREFIX == "CCB_DONE:"
BlankLine == <<"", "">>
TextLine == <<"text", "">>
DoneLine(r) == <<DONE_PREFIX, r>>
Lines == {BlankLine, TextLine} \cup {DoneLine(r) : r \in ReqIds}

Min(a, b) == IF a <= b THEN a ELSE b

\* done_line_re(req_id).match(line)
done_line_re_any(line, r) == line[1] = DONE_PREFIX
done_line_re(line, r) == line = <<DONE_PREFIX, r>>

\* Index of the last line with lines[i].strip() != "", or 0.
LastNonBlank(lines) ==
  IF \E i \in DOMAIN lines : lines[i] # BlankLine
    THEN CHOOSE i \in DOMAIN lines :
           /\ lines[i] # BlankLine
           /\ \A j \in DOMAIN lines : j > i => lines[j] = BlankLine
    ELSE 0

\* is_done_text: the last non-empty line is the done line of req_id.
is_done_text(text, r) ==
  LET i == LastNonBlank(text)
  IN  i > 0 /\ done_line_re(text[i], r)

\* str.rstrip() of the joined lines: trailing blank lines go.
rstrip(lines) == SubSeq(lines, 1, LastNonBlank(lines))

\* strip_done_text: drop the trailing done line of req_id, then rstrip.
strip_done_text(text, r) ==
  LET i == LastNonBlank(text)
  IN  IF i > 0 /\ done_line_re(text[i], r)
        THEN rstrip(SubSeq(text, 1, i - 1))
        ELSE rstrip(text)

\* task.result is None.
NoResultYet == [set |-> FALSE, exit_code |-> 0, reply |-> <<>>, done_seen |-> FALSE]
\* CaskdResult(exit_code=..., reply=..., done_seen=...)
CaskdResult(e, r, d) == [set |-> TRUE, exit_code |-> e, reply |-> r, done_seen |-> d]
\* The one-line error messages of the exit_code 1 results.
ErrorReply == <<TextLine>>

NoResponse == [sent |-> FALSE, exit_code |-> 0, reply |-> <<>>, done_seen |-> FALSE]
\* {"exit_code": 2, "reply": ""}: written when task.result is None
TimeoutResponse == [sent |-> TRUE, exit_code |-> 2, reply |-> <<>>, done_seen |-> FALSE]
\* The response built from task.result.
ResultResponse(result) ==
  [sent |-> TRUE, exit_code |-> result.exit_code, reply |-> result.reply,
   done_seen |-> result.done_seen]

\* A line of the daemon's log: its level, the task boundary it marks (or ""),
\* the req id it carries.
LogLine(level, what, r) == <<level, what, r>>
\* _write_log: the line is appended to the log file.
write_log_twice(log, line) == Append(Append(log, line), line)
write_log(log, line) == Append(log, line)

LogIdle == wlog = <<>>

\* What a step that writes to the log leaves alone besides the request.
notTaskLog == <<poolVars, laneVars, srvVars, lifeVars, protoVars,
                sessVars, reqVars, keyVars, recvVars, mailVars,
                replyVars, queueVars, tailVars, paneVars, gemVars,
                ocVars, alVars, drVars>>

TaskInit ==
  /\ now = 0
  /\ spc = "idle"
  /\ timeout_s = 0
  /\ wait_until = 0
  /\ signalled = FALSE
  /\ resp = NoResponse
  /\ wpc = "idle"
  /\ deadline = 0
  /\ last_pane_check = 0
  /\ anchor_seen = FALSE
  /\ anchor_collect_grace = 0
  /\ chunks = <<>>
  /\ done_seen = FALSE
  /\ wend = ""
  /\ task_result = NoResultYet
  /\ done_event = FALSE

\* Handler.handle: task = pool.submit(req); task.done_event.wait(timeout=...)
h_submit(t_s) ==
  /\ spc = "idle"
  /\ timeout_s' = t_s
  /\ wait_until' = now + WaitTimeout(t_s)
  /\ spc' = "waiting"
  /\ wpc' = "get"
  /\ UNCHANGED <<now, signalled, resp, deadline, last_pane_check, anchor_seen,
                 anchor_collect_grace, chunks, done_seen, wend, task_result,
                 done_event>>
  /\ UNCHANGED notTask

\* done_event.wait returns True: the event is set.
h_wait_signalled ==
  /\ spc = "waiting"
  /\ done_event
  /\ signalled' = TRUE
  /\ spc' = "woke"
  /\ UNCHANGED <<now, timeout_s, wait_until, resp, wpc, deadline,
                 last_pane_check, anchor_seen, anchor_collect_grace, chunks,
                 done_seen, wend, task_result, done_event>>
  /\ UNCHANGED notTask

\* done_event.wait returns False: the timeout ran out.
h_wait_expires ==
  /\ spc = "waiting"
  /\ ~done_event
  /\ now >= wait_until
  /\ signalled' = FALSE
  /\ spc' = "woke"
  /\ UNCHANGED <<now, timeout_s, wait_until, resp, wpc, deadline,
                 last_pane_check, anchor_seen, anchor_collect_grace, chunks,
                 done_seen, wend, task_result, done_event>>
  /\ UNCHANGED notTask

\* result = task.result; if not result: write exit_code 2, "" else the result
h_respond ==
  /\ spc = "woke"
  /\ resp' = IF ~task_result.set THEN TimeoutResponse
             ELSE ResultResponse(task_result)
  /\ spc' = "responded"
  /\ UNCHANGED <<now, timeout_s, wait_until, signalled, wpc, deadline,
                 last_pane_check, anchor_seen, anchor_collect_grace, chunks,
                 done_seen, wend, task_result, done_event>>
  /\ UNCHANGED notTask

\* What the worker's steps leave alone of the connection handler.
handlerVars == <<spc, timeout_s, wait_until, signalled, resp>>

\* The loop runs another round: the deadline is ahead.
InLoop == wpc = "loop" /\ deadline - now > 0
\* time.time() - last_pane_check >= pane_check_interval
PaneCheckDue == now - last_pane_check >= PaneCheckInterval

\* _SessionWorker.run: task = self._q.get(timeout=0.2); _handle_task begins
\* with _write_log("[INFO] start ... req_id=...")
w_get ==
  /\ wpc = "get"
  /\ wpc' = "start"
  /\ UNCHANGED <<now, deadline, last_pane_check, anchor_seen,
                 anchor_collect_grace, chunks, done_seen, wend, task_result,
                 done_event>>
  /\ UNCHANGED handlerVars
  /\ wlog' = write_log(wlog, LogLine("INFO", "start", req_id))
  /\ UNCHANGED notTaskLog

\* _handle_task returns early with exit_code 1: no session record, or the
\* pane (or the terminal backend) is not available.
w_unavailable(why) ==
  /\ wpc = "start"
  /\ task_result' = CaskdResult(1, ErrorReply, FALSE)
  /\ wend' = why
  /\ wpc' = "finally"
  /\ UNCHANGED <<now, deadline, last_pane_check, anchor_seen,
                 anchor_collect_grace, chunks, done_seen, done_event>>
  /\ UNCHANGED handlerVars
  /\ UNCHANGED notTask

\* Session and pane are there: state = reader.capture_state()
w_capture ==
  /\ wpc = "start"
  /\ wpc' = "send"
  /\ UNCHANGED <<now, deadline, last_pane_check, anchor_seen,
                 anchor_collect_grace, chunks, done_seen, wend, task_result,
                 done_event>>
  /\ UNCHANGED handlerVars
  /\ UNCHANGED notTask

\* backend.send_text(pane_id, prompt), then the loop's locals are set up.
w_send ==
  /\ wpc = "send"
  /\ deadline' = now + timeout_s
  /\ anchor_collect_grace' = Min(now + timeout_s, now + AnchorCollectGrace)
  /\ last_pane_check' = now
  /\ chunks' = <<>>
  /\ anchor_seen' = FALSE
  /\ done_seen' = FALSE
  /\ wpc' = "loop"
  /\ UNCHANGED <<now, wend, task_result, done_event>>
  /\ UNCHANGED handlerVars
  /\ UNCHANGED notTask

\* send_text raises: run's except clause writes an [ERROR] line and builds
\* the exit_code 1 result.
w_raises ==
  /\ wpc = "send"
  /\ task_result' = CaskdResult(1, ErrorReply, FALSE)
  /\ wend' = "raised"
  /\ wpc' = "finally"
  /\ UNCHANGED <<now, deadline, last_pane_check, anchor_seen,
                 anchor_collect_grace, chunks, done_seen, done_event>>
  /\ UNCHANGED handlerVars
  /\ wlog' = write_log(wlog, LogLine("ERROR", "", req_id))
  /\ UNCHANGED notTaskLog

\* remaining = deadline - time.time(); if remaining <= 0: break
w_deadline ==
  /\ wpc = "loop"
  /\ deadline - now <= 0
  /\ wend' = "deadline"
  /\ wpc' = "return"
  /\ UNCHANGED <<now, deadline, last_pane_check, anchor_seen,
                 anchor_collect_grace, chunks, done_seen, task_result,
                 done_event>>
  /\ UNCHANGED handlerVars
  /\ UNCHANGED notTask

\* The periodic probe: the pane is gone, or the pane shows the interruption
\* banner after our request; both write a line ([ERROR], [WARN]) and return
\* an exit_code 1 result.
w_probe_fails(why) ==
  /\ InLoop
  /\ PaneCheckDue
  /\ task_result' = CaskdResult(1, ErrorReply, FALSE)
  /\ wend' = why
  /\ wpc' = "finally"
  /\ UNCHANGED <<now, deadline, last_pane_check, anchor_seen,
                 anchor_collect_grace, chunks, done_seen, done_event>>
  /\ UNCHANGED handlerVars
  /\ wlog' = write_log(wlog, LogLine(IF why = "panedied" THEN "ERROR" ELSE "WARN",
                                    "", req_id))
  /\ UNCHANGED notTaskLog

\* The periodic probe finds nothing: last_pane_check = time.time()
w_probe_ok ==
  /\ InLoop
  /\ PaneCheckDue
  /\ last_pane_check' = now
  /\ UNCHANGED <<now, wpc, deadline, anchor_seen, anchor_collect_grace, chunks,
                 done_seen, wend, task_result, done_event>>
  /\ UNCHANGED handlerVars
  /\ UNCHANGED notTask

\* wait_for_event yields the user entry that carries our CCB_REQ_ID.
w_event_user ==
  /\ InLoop
  /\ ~PaneCheckDue
  /\ ~anchor_seen
  /\ anchor_seen' = TRUE
  /\ UNCHANGED <<now, wpc, deadline, last_pane_check, anchor_collect_grace,
                 chunks, done_seen, wend, task_result, done_event>>
  /\ UNCHANGED handlerVars
  /\ UNCHANGED notTask

\* wait_for_event yields assistant text.  Before our request is visible in
\* the log and within the grace period it is not collected; otherwise
\* chunks.append(text), and the loop breaks with done_seen when
\* is_done_text(combined, task.req_id).
w_event_assistant(text) ==
  /\ InLoop
  /\ ~PaneCheckDue
  /\ Len(chunks) < MaxChunks
  /\ IF ~anchor_seen /\ now < anchor_collect_grace
       THEN UNCHANGED <<chunks, done_seen, wend, wpc>>
       ELSE /\ chunks' = Append(chunks, text)
            /\ IF is_done_text(chunks', req_id)
                 THEN done_seen' = TRUE /\ wend' = "done" /\ wpc' = "return"
                 ELSE UNCHANGED <<done_seen, wend, wpc>>
  /\ UNCHANGED <<now, deadline, last_pane_check, anchor_seen,
                 anchor_collect_grace, task_result, done_event>>
  /\ UNCHANGED handlerVars
  /\ UNCHANGED notTask

\* After the loop: reply = strip_done_text(combined, req_id);
\* exit_code = 0 if done_seen else 2; _write_log("[INFO] done ..."); run
\* stores the returned result.
w_return ==
  /\ wpc = "return"
  /\ task_result' = CaskdResult(IF done_seen THEN 0 ELSE 2,
                                strip_done_text(chunks, req_id), done_seen)
  /\ wpc' = "finally"
  /\ UNCHANGED <<now, deadline, last_pane_check, anchor_seen,
                 anchor_collect_grace, chunks, done_seen, wend, done_event>>
  /\ UNCHANGED handlerVars
  /\ wlog' = write_log(wlog, LogLine("INFO", "done", req_id))
  /\ UNCHANGED notTaskLog

\* run: finally: task.done_event.set()
w_finally ==
  /\ wpc = "finally"
  /\ done_event' = TRUE
  /\ wpc' = "end"
  /\ UNCHANGED <<now, deadline, last_pane_check, anchor_seen,
                 anchor_collect_grace, chunks, done_seen, wend, task_result>>
  /\ UNCHANGED handlerVars
  /\ UNCHANGED notTask

\* A second passes.  The handler's wait returns as soon as the event is set
\* or its timeout has run out, and the worker lets time pass only where it
\* blocks: in the terminal and session calls before the prompt is sent and in
\* wait_for_event, which returns by the deadline.
Tick ==
  /\ now < MaxNow
  /\ spc \in {"waiting", "responded"}
  /\ ~(spc = "waiting" /\ (done_event \/ now >= wait_until))
  /\ \/ wpc = "start"
     \/ InLoop /\ ~PaneCheckDue
     \/ wpc = "end" /\ spc = "waiting"
  /\ now' = now + 1
  /\ UNCHANGED <<wpc, deadline, last_pane_check, anchor_seen,
                 anchor_collect_grace, chunks, done_seen, wend, task_result,
                 done_event>>
  /\ UNCHANGED handlerVars
  /\ UNCHANGED notTask

(***************************************************************************)
(* askd_server.py: AskDaemonServer.serve_forever and its connection        *)
(* handler, started by UnifiedAskDaemon.serve_forever (askd/daemon.py).    *)
(* process_lock.ProviderLock is an exclusive, non-blocking lock named      *)
(* after the daemon key.                                                   *)
(***************************************************************************)
NConns == 2
Conns == 1..NConns

\* Two processes started with the same daemon key; the name is the pid.
Daemons == {"d1", "d2"}
NoPid == "none"

\* CCB_PARENT_PID of the launching process; 0 stands for "not set".
ParentPids == {0, 7}

\* serve_forever has not returned.
NotReturned == -1

\* self.token of each daemon: random_token()
token == [d \in Daemons |-> IF d = "d1" THEN "t1" ELSE "t2"]
NoToken == "none"

MsgTypes == {"ping", "shutdown", "request", "other"}
\* A line that is empty or no JSON.
Malformed == [kind |-> "malformed", token |-> NoToken, type |-> "other"]
\* The JSON objects a client may send: the token of either daemon, any type.
Frames ==
  [kind : {"object"}, token : {"t1", "t2"}, type : MsgTypes]
    \cup {Malformed}

NoFrame == [kind |-> "none", token |-> NoToken, type |-> "other"]
NoReply == [sent |-> FALSE, type |-> "", exit_code |-> 0, reply |-> ""]
Reply(ty, e, r) == [sent |-> TRUE, type |-> ty, exit_code |-> e, reply |-> r]

\* What request_handler may do: return a response, or raise.
HandlerOutcomes == {"exit0", "raise"}

\* ProviderLock.try_acquire succeeds.
LockAcquirable == lock_holder = NoPid

\* msg.get("token") != self.server.token
TokenAcceptedAny(msg, d) == TRUE
TokenAccepted(msg, d) == msg.token = token[d]

\* The daemon-side variables while another specification runs.
SrvIdle ==
  /\ dpc = [d \in Daemons |-> "start"]
  /\ parent_pid = [d \in Daemons |-> 0]
  /\ parent_alive = TRUE
  /\ lock_holder = NoPid
  /\ listener = {}
  /\ state_file = NoPid
  /\ shutdown_requested = {}
  /\ pmon = [d \in Daemons |-> "off"]
  /\ ret = [d \in Daemons |-> NotReturned]
  /\ bound_ever = {}
  /\ state_touched = {}
  /\ cpc = [c \in Conns |-> "idle"]
  /\ cdaemon = [c \in Conns |-> NoPid]
  /\ frame = [c \in Conns |-> NoFrame]
  /\ cresp = [c \in Conns |-> NoReply]
  /\ cprior = [c \in Conns |-> FALSE]
  /\ handler_called = {}
  /\ shutdown_by = {}

\* Both processes are about to call serve_forever; the launcher gave both
\* the same environment, with or without a parent pid.
SrvInit ==
  /\ dpc = [d \in Daemons |-> "start"]
  /\ \E p \in ParentPids : parent_pid = [d \in Daemons |-> p]
  /\ parent_alive = TRUE
  /\ lock_holder = NoPid
  /\ listener = {}
  /\ state_file = NoPid
  /\ shutdown_requested = {}
  /\ pmon = [d \in Daemons |-> "off"]
  /\ ret = [d \in Daemons |-> NotReturned]
  /\ bound_ever = {}
  /\ state_touched = {}
  /\ cpc = [c \in Conns |-> "idle"]
  /\ cdaemon = [c \in Conns |-> NoPid]
  /\ frame = [c \in Conns |-> NoFrame]
  /\ cresp = [c \in Conns |-> NoReply]
  /\ cprior = [c \in Conns |-> FALSE]
  /\ handler_called = {}
  /\ shutdown_by = {}

\* lock = ProviderLock(...); if not lock.try_acquire(): return 2
d_try_acquire(d) ==
  /\ dpc[d] = "start"
  /\ IF LockAcquirable
       THEN /\ lock_holder' = d
            /\ dpc' = [dpc EXCEPT ![d] = "locked"]
            /\ UNCHANGED ret
       ELSE /\ ret' = [ret EXCEPT ![d] = 2]
            /\ dpc' = [dpc EXCEPT ![d] = "returned"]
            /\ UNCHANGED lock_holder
  /\ UNCHANGED <<parent_pid, parent_alive, listener, state_file,
                 shutdown_requested, pmon, bound_ever, state_touched>>
  /\ UNCHANGED connVars
  /\ UNCHANGED notSrv

\* with Server((self.host, self.port), Handler) as httpd: the socket is bound
\* and listening; the server attributes are set and the idle monitor thread,
\* which returns at once for a managed daemon, is started.
d_bind(d) ==
  /\ dpc[d] = "locked"
  /\ listener' = listener \cup {d}
  /\ bound_ever' = bound_ever \cup {d}
  /\ dpc' = [dpc EXCEPT ![d] = "bound"]
  /\ UNCHANGED <<parent_pid, parent_alive, lock_holder, state_file,
                 shutdown_requested, pmon, ret, state_touched>>
  /\ UNCHANGED connVars
  /\ UNCHANGED notSrv

\* if getattr(httpd, "parent_pid", 0): def _parent_monitor ...
\* threading.Thread(target=_parent_monitor, daemon=True).start()
d_start_parent_monitor(d) ==
  /\ dpc[d] = "bound"
  /\ parent_pid[d] # 0
  /\ pmon' = [pmon EXCEPT ![d] = "polling"]
  /\ dpc' = [dpc EXCEPT ![d] = "monitored"]
  /\ UNCHANGED <<parent_pid, parent_alive, lock_holder, listener, state_file,
                 shutdown_requested, ret, bound_ever, state_touched>>
  /\ UNCHANGED connVars
  /\ UNCHANGED notSrv

\* The same statement without a parent pid: _parent_monitor was never bound,
\* the Thread(...) line raises UnboundLocalError, the with block closes the
\* socket, the outer finally releases the lock and the exception leaves
\* serve_forever.
d_parent_monitor_unbound(d) ==
  /\ dpc[d] = "bound"
  /\ parent_pid[d] = 0
  /\ listener' = listener \ {d}
  /\ lock_holder' = NoPid
  /\ dpc' = [dpc EXCEPT ![d] = "crashed"]
  /\ UNCHANGED <<parent_pid, parent_alive, state_file, shutdown_requested,
                 pmon, ret, bound_ever, state_touched>>
  /\ UNCHANGED connVars
  /\ UNCHANGED notSrv

\* self._write_state(actual_host, actual_port); httpd.serve_forever(...)
d_write_state(d) ==
  /\ dpc[d] = "monitored"
  /\ state_file' = d
  /\ state_touched' = state_touched \cup {d}
  /\ dpc' = [dpc EXCEPT ![d] = "serving"]
  /\ UNCHANGED <<parent_pid, parent_alive, lock_holder, listener,
                 shutdown_requested, pmon, ret, bound_ever>>
  /\ UNCHANGED connVars
  /\ UNCHANGED notSrv

\* The parent process of the managed daemons exits.
parent_exits ==
  /\ parent_alive
  /\ \E d \in Daemons : pmon[d] = "polling"
  /\ parent_alive' = FALSE
  /\ UNCHANGED <<dpc, parent_pid, lock_holder, listener, state_file,
                 shutdown_requested, pmon, ret, bound_ever, state_touched>>
  /\ UNCHANGED connVars
  /\ UNCHANGED notSrv

\* _parent_monitor: if not _is_pid_alive(parent_pid): start httpd.shutdown; return
parent_monitor(d) ==
  /\ pmon[d] = "polling"
  /\ ~parent_alive
  /\ shutdown_requested' = shutdown_requested \cup {d}
  /\ pmon' = [pmon EXCEPT ![d] = "returned"]
  /\ UNCHANGED <<dpc, parent_pid, parent_alive, lock_holder, listener,
                 state_file, ret, bound_ever, state_touched>>
  /\ UNCHANGED connVars
  /\ UNCHANGED notSrv

\* httpd.serve_forever returns after shutdown; finally: self.on_stop(), which
\* removes the state file if it records this pid (_cleanup_state_file).
d_on_stop(d) ==
  /\ dpc[d] = "serving"
  /\ d \in shutdown_requested
  /\ IF state_file = d
       THEN /\ state_file' = NoPid
            /\ state_touched' = state_touched \cup {d}
       ELSE UNCHANGED <<state_file, state_touched>>
  /\ dpc' = [dpc EXCEPT ![d] = "stopped"]
  /\ UNCHANGED <<parent_pid, parent_alive, lock_holder, listener,
                 shutdown_requested, pmon, ret, bound_ever>>
  /\ UNCHANGED connVars
  /\ UNCHANGED notSrv

\* The with block closes the socket; finally: lock.release(); return 0
d_release(d) ==
  /\ dpc[d] = "stopped"
  /\ listener' = listener \ {d}
  /\ lock_holder' = IF lock_holder = d THEN NoPid ELSE lock_holder
  /\ ret' = [ret EXCEPT ![d] = 0]
  /\ dpc' = [dpc EXCEPT ![d] = "returned"]
  /\ UNCHANGED <<parent_pid, parent_alive, state_file, shutdown_requested,
                 pmon, bound_ever, state_touched>>
  /\ UNCHANGED connVars
  /\ UNCHANGED notSrv

\* A client connects to a serving daemon and sends one line; the acceptor
\* hands the connection to a handler thread.
c_connect(c, d, f) ==
  /\ cpc[c] = "idle"
  /\ \A u \in Conns : u < c => cpc[u] # "idle"
  /\ dpc[d] = "serving"
  /\ cpc' = [cpc EXCEPT ![c] = "accepted"]
  /\ cdaemon' = [cdaemon EXCEPT ![c] = d]
  /\ frame' = [frame EXCEPT ![c] = f]
  /\ cprior' = [cprior EXCEPT ![c] =
       \E u \in Conns : /\ cpc[u] = "done" /\ cdaemon[u] = d
                        /\ cresp[u].reply = "Unauthorized"]
  /\ UNCHANGED <<cresp, handler_called, shutdown_by>>
  /\ UNCHANGED daemonVars
  /\ UNCHANGED notSrv

\* handle: the line is empty or json.loads fails: return without a response;
\* a JSON value that is no object makes msg.get raise, with the same outcome.
c_malformed(c) ==
  /\ cpc[c] = "accepted"
  /\ frame[c].kind = "malformed"
  /\ cpc' = [cpc EXCEPT ![c] = "done"]
  /\ UNCHANGED <<cdaemon, frame, cresp, cprior, handler_called, shutdown_by>>
  /\ UNCHANGED daemonVars
  /\ UNCHANGED notSrv

\* handle: if msg.get("token") != self.server.token: write Unauthorized; return
c_unauthorized(c) ==
  /\ cpc[c] = "accepted"
  /\ frame[c].kind = "object"
  /\ ~TokenAccepted(frame[c], cdaemon[c])
  /\ cresp' = [cresp EXCEPT ![c] = Reply("ask.response", 1, "Unauthorized")]
  /\ cpc' = [cpc EXCEPT ![c] = "done"]
  /\ UNCHANGED <<cdaemon, frame, cprior, handler_called, shutdown_by>>
  /\ UNCHANGED daemonVars
  /\ UNCHANGED notSrv

\* handle: ping is answered with pong.
c_ping(c) ==
  /\ cpc[c] = "accepted"
  /\ frame[c].kind = "object"
  /\ TokenAccepted(frame[c], cdaemon[c])
  /\ frame[c].type = "ping"
  /\ cresp' = [cresp EXCEPT ![c] = Reply("ask.pong", 0, "OK")]
  /\ cpc' = [cpc EXCEPT ![c] = "done"]
  /\ UNCHANGED <<cdaemon, frame, cprior, handler_called, shutdown_by>>
  /\ UNCHANGED daemonVars
  /\ UNCHANGED notSrv

\* handle: shutdown is answered OK, then a thread runs self.server.shutdown.
c_shutdown(c) ==
  /\ cpc[c] = "accepted"
  /\ frame[c].kind = "object"
  /\ TokenAccepted(frame[c], cdaemon[c])
  /\ frame[c].type = "shutdown"
  /\ cresp' = [cresp EXCEPT ![c] = Reply("ask.response", 0, "OK")]
  /\ shutdown_requested' = shutdown_requested \cup {cdaemon[c]}
  /\ shutdown_by' = shutdown_by \cup {c}
  /\ cpc' = [cpc EXCEPT ![c] = "done"]
  /\ UNCHANGED <<cdaemon, frame, cprior, handler_called>>
  /\ UNCHANGED <<dpc, parent_pid, parent_alive, lock_holder, listener,
                 state_file, pmon, ret, bound_ever, state_touched>>
  /\ UNCHANGED notSrv

\* handle: any other type than request is answered "Invalid request".
c_invalid(c) ==
  /\ cpc[c] = "accepted"
  /\ frame[c].kind = "object"
  /\ TokenAccepted(frame[c], cdaemon[c])
  /\ frame[c].type = "other"
  /\ cresp' = [cresp EXCEPT ![c] = Reply("ask.response", 1, "Invalid request")]
  /\ cpc' = [cpc EXCEPT ![c] = "done"]
  /\ UNCHANGED <<cdaemon, frame, cprior, handler_called, shutdown_by>>
  /\ UNCHANGED daemonVars
  /\ UNCHANGED notSrv

\* handle: resp = self.server.request_handler(msg), which submits the task and
\* waits for it; its response is written, or "Internal error" when it raised.
c_request(c, outcome) ==
  /\ cpc[c] = "accepted"
  /\ frame[c].kind = "object"
  /\ TokenAccepted(frame[c], cdaemon[c])
  /\ frame[c].type = "request"
  /\ handler_called' = handler_called \cup {c}
  /\ cresp' = [cresp EXCEPT ![c] =
       IF outcome = "exit0" THEN Reply("ask.response", 0, "reply")
       ELSE Reply("ask.response", 1, "Internal error")]
  /\ cpc' = [cpc EXCEPT ![c] = "done"]
  /\ UNCHANGED <<cdaemon, frame, cprior, shutdown_by>>
  /\ UNCHANGED daemonVars
  /\ UNCHANGED notSrv

(***************************************************************************)
(* One provider daemon from start to return, in time, for each server:     *)
(* AskDaemonServer with UnifiedAskDaemon's on_stop (askd_server.py,        *)
(* askd/daemon.py), CaskdServer, GaskdServer and OaskdServer.  One tick is *)
(* the 0.5 s the idle monitor and the parent monitor sleep between looks.  *)
(* The main thread, both monitor threads and one handler thread per        *)
(* connection interleave; ThreadingTCPServer keeps daemon_threads False,   *)
(* so leaving the `with Server(...)` block joins the handler threads.      *)
(***************************************************************************)
Variants == {"askd", "caskd", "gaskd", "oaskd"}

\* What the state file records: nothing, this daemon's pid, another pid.
NoFile == "nofile"
Me == "me"
Other == "other"

\* CCB_<DAEMON>_IDLE_TIMEOUT_S in ticks: disabled, or two monitor sleeps.
IdleTimeout == 2
IdleTimeouts == {0, IdleTimeout}

\* time.sleep(0.5) of the monitors, and the handler's bounded wait, in ticks.
PollSleep == 1
HandlerWait == 1

\* What a connection asks: shutdown, or a request whose handler waits on its
\* task with a timeout (timeout_s + 5) or without one (timeout_s < 0).
HandlerKinds(v) ==
  IF v = "askd" THEN {"shutdown", "bounded", "unbounded"}
                ELSE {"shutdown", "bounded"}

Requesters == {"message", "idle", "parent"}
NotDead == -1

\* Servers whose stop path calls _cleanup_state_file.
CleansState(v) == v \in {"askd", "oaskd"}

\* _cleanup_state_file: int(st.get("pid") or 0) == os.getpid()
PidMatchesAny(st) == st # NoFile
PidMatches(st) == st = Me

\* _idle_monitor: active == 0 and (time.time() - last) >= timeout_s
IdleExpiredBusy(active, idle, t_s) == idle >= t_s
IdleExpired(active, idle, t_s) == active = 0 /\ idle >= t_s

\* _is_pid_alive(parent_pid): os.kill(pid, 0) succeeds
IsPidAliveNever == FALSE
IsPidAlive == ppid_alive

\* The process exists and its threads run.
Alive == mpc \notin {"off", "start", "crashed", "returned"}

LifeIdle ==
  /\ variant = "askd"
  /\ managed = FALSE
  /\ ppid = 0
  /\ ppid_alive = FALSE
  /\ idle_timeout_s = 0
  /\ mpc = "off"
  /\ statefile = NoFile
  /\ lockheld = FALSE
  /\ listening = FALSE
  /\ active_requests = 0
  /\ idle_for = 0
  /\ imon = "none"
  /\ im_active = 0
  /\ im_idle_for = 0
  /\ im_slept = FALSE
  /\ pmonitor = "none"
  /\ pm_slept = FALSE
  /\ shutdown_request = FALSE
  /\ requested_by = [r \in Requesters |-> 0]
  /\ dead_for = NotDead
  /\ pm_delay = NotDead
  /\ hpc = [c \in Conns |-> "idle"]
  /\ hkind = [c \in Conns |-> "shutdown"]
  /\ hreply = [c \in Conns |-> NotReturned]
  /\ hwait = [c \in Conns |-> 0]
  /\ retcode = NotReturned

\* __init__: the parent pid and the managed flag come from the environment;
\* only AskDaemonServer has them.  A parent pid forces managed.
LifeInit ==
  /\ variant \in Variants
  /\ ppid \in (IF variant = "askd" THEN ParentPids ELSE {0})
  /\ managed \in (IF variant # "askd" THEN {FALSE}
                  ELSE IF ppid # 0 THEN {TRUE} ELSE BOOLEAN)
  /\ ppid_alive = (ppid # 0)
  /\ idle_timeout_s \in IdleTimeouts
  /\ mpc = "start"
  /\ statefile = NoFile
  /\ lockheld = FALSE
  /\ listening = FALSE
  /\ active_requests = 0
  /\ idle_for = 0
  /\ imon = "none"
  /\ im_active = 0
  /\ im_idle_for = 0
  /\ im_slept = FALSE
  /\ pmonitor = "none"
  /\ pm_slept = FALSE
  /\ shutdown_request = FALSE
  /\ requested_by = [r \in Requesters |-> 0]
  /\ dead_for = NotDead
  /\ pm_delay = NotDead
  /\ hpc = [c \in Conns |-> "idle"]
  /\ hkind = [c \in Conns |-> "shutdown"]
  /\ hreply = [c \in Conns |-> NotReturned]
  /\ hwait = [c \in Conns |-> 0]
  /\ retcode = NotReturned

mainVars == <<variant, managed, ppid, idle_timeout_s>>

\* threading.Thread(target=httpd.shutdown, daemon=True).start() by `who`
StartShutdown(who) ==
  /\ shutdown_request' = TRUE
  /\ requested_by' = [requested_by EXCEPT ![who] = @ + 1]

\* lock.try_acquire() succeeds
m_try_acquire ==
  /\ mpc = "start"
  /\ lockheld' = TRUE
  /\ mpc' = "locked"
  /\ UNCHANGED <<mainVars, ppid_alive, statefile, listening, active_requests,
                 idle_for, imon, im_active, im_idle_for, im_slept, pmonitor,
                 pm_slept, shutdown_request, requested_by, dead_for, pm_delay,
                 hpc, hkind, hreply, hwait, retcode>>
  /\ UNCHANGED notLife

\* with Server(...) as httpd: the activity counters, the idle timeout
\* (0 when managed) and the start of the idle monitor thread, which returns
\* at once when the timeout is not positive
m_bind ==
  /\ mpc = "locked"
  /\ listening' = TRUE
  /\ active_requests' = 0
  /\ idle_for' = 0
  /\ idle_timeout_s' = IF managed THEN 0 ELSE idle_timeout_s
  /\ imon' = IF idle_timeout_s' <= 0 THEN "done" ELSE "sleep"
  /\ im_slept' = FALSE
  /\ mpc' = "bound"
  /\ UNCHANGED <<variant, managed, ppid, ppid_alive, statefile, lockheld,
                 im_active, im_idle_for, pmonitor, pm_slept, shutdown_request,
                 requested_by, dead_for, pm_delay, hpc, hkind, hreply, hwait,
                 retcode>>
  /\ UNCHANGED notLife

\* AskDaemonServer with a parent pid: _parent_monitor is defined and started
m_start_parent_monitor ==
  /\ mpc = "bound"
  /\ variant = "askd"
  /\ ppid # 0
  /\ pmonitor' = "sleep"
  /\ pm_slept' = FALSE
  /\ dead_for' = IF dead_for = NotDead THEN NotDead ELSE 0
  /\ mpc' = "monitored"
  /\ UNCHANGED <<mainVars, ppid_alive, statefile, lockheld, listening,
                 active_requests, idle_for, imon, im_active, im_idle_for,
                 im_slept, shutdown_request, requested_by, pm_delay, hpc,
                 hkind, hreply, hwait, retcode>>
  /\ UNCHANGED notLife

\* AskDaemonServer without a parent pid: the Thread(target=_parent_monitor)
\* line names an unbound local; the exception leaves the with block (the
\* listener is closed), the outer finally releases the lock and
\* serve_forever is left without a return value
m_parent_monitor_unbound ==
  /\ mpc = "bound"
  /\ variant = "askd"
  /\ ppid = 0
  /\ listening' = FALSE
  /\ lockheld' = FALSE
  /\ mpc' = "crashed"
  /\ UNCHANGED <<mainVars, ppid_alive, statefile, active_requests, idle_for,
                 imon, im_active, im_idle_for, im_slept, pmonitor, pm_slept,
                 shutdown_request, requested_by, dead_for, pm_delay, hpc,
                 hkind, hreply, hwait, retcode>>
  /\ UNCHANGED notLife

\* self._write_state(host, port): the file now records this pid
m_write_state ==
  /\ \/ mpc = "monitored"
     \/ mpc = "bound" /\ variant # "askd"
  /\ statefile' = Me
  /\ mpc' = "serving"
  /\ UNCHANGED <<mainVars, ppid_alive, lockheld, listening, active_requests,
                 idle_for, imon, im_active, im_idle_for, im_slept, pmonitor,
                 pm_slept, shutdown_request, requested_by, dead_for, pm_delay,
                 hpc, hkind, hreply, hwait, retcode>>
  /\ UNCHANGED notLife

\* httpd.serve_forever(poll_interval=0.2) sees the shutdown request
m_loop_exit ==
  /\ mpc = "serving"
  /\ shutdown_request
  /\ mpc' = "stopped"
  /\ UNCHANGED <<mainVars, ppid_alive, statefile, lockheld, listening,
                 active_requests, idle_for, imon, im_active, im_idle_for,
                 im_slept, pmonitor, pm_slept, shutdown_request, requested_by,
                 dead_for, pm_delay, hpc, hkind, hreply, hwait, retcode>>
  /\ UNCHANGED notLife

\* the finally of httpd.serve_forever: askd runs on_stop and OaskdServer
\* runs _cleanup_state_file, which unlinks the file when it records this
\* pid; OaskdServer also releases the lock here; CaskdServer and
\* GaskdServer only log
m_finally ==
  /\ mpc = "stopped"
  /\ statefile' = IF CleansState(variant) /\ PidMatches(statefile)
                    THEN NoFile ELSE statefile
  /\ lockheld' = IF variant = "oaskd" THEN FALSE ELSE lockheld
  /\ mpc' = "closing"
  /\ UNCHANGED <<mainVars, ppid_alive, listening, active_requests, idle_for,
                 imon, im_active, im_idle_for, im_slept, pmonitor, pm_slept,
                 shutdown_request, requested_by, dead_for, pm_delay, hpc,
                 hkind, hreply, hwait, retcode>>
  /\ UNCHANGED notLife

\* leaving `with Server(...)`: server_close() closes the listener and then
\* joins the handler threads
m_server_close ==
  /\ mpc = "closing"
  /\ listening' = FALSE
  /\ mpc' = "joining"
  /\ UNCHANGED <<mainVars, ppid_alive, statefile, lockheld, active_requests,
                 idle_for, imon, im_active, im_idle_for, im_slept, pmonitor,
                 pm_slept, shutdown_request, requested_by, dead_for, pm_delay,
                 hpc, hkind, hreply, hwait, retcode>>
  /\ UNCHANGED notLife

\* every handler thread has ended: AskDaemonServer's outer finally releases
\* the lock; return 0
m_return ==
  /\ mpc = "joining"
  /\ \A c \in Conns : hpc[c] \in {"idle", "ended"}
  /\ lockheld' = IF variant = "askd" THEN FALSE ELSE lockheld
  /\ retcode' = 0
  /\ mpc' = "returned"
  /\ UNCHANGED <<mainVars, ppid_alive, statefile, listening, active_requests,
                 idle_for, imon, im_active, im_idle_for, im_slept, pmonitor,
                 pm_slept, shutdown_request, requested_by, dead_for, pm_delay,
                 hpc, hkind, hreply, hwait>>
  /\ UNCHANGED notLife

\* _idle_monitor after its sleep: with httpd.activity_lock it reads
\* active_requests and last_activity
i_read ==
  /\ Alive
  /\ imon = "sleep"
  /\ im_slept
  /\ im_active' = active_requests
  /\ im_idle_for' = idle_for
  /\ imon' = "read"
  /\ UNCHANGED <<mainVars, ppid_alive, mpc, statefile, lockheld, listening,
                 active_requests, idle_for, im_slept, pmonitor, pm_slept,
                 shutdown_request, requested_by, dead_for, pm_delay, hpc,
                 hkind, hreply, hwait, retcode>>
  /\ UNCHANGED notLife

\* _idle_monitor compares what it read: it starts the shutdown thread and
\* returns, or sleeps again
i_decide ==
  /\ Alive
  /\ imon = "read"
  /\ IF IdleExpired(im_active, im_idle_for, idle_timeout_s)
       THEN /\ StartShutdown("idle")
            /\ imon' = "done"
            /\ UNCHANGED im_slept
       ELSE /\ imon' = "sleep"
            /\ im_slept' = FALSE
            /\ UNCHANGED <<shutdown_request, requested_by>>
  /\ UNCHANGED <<mainVars, ppid_alive, mpc, statefile, lockheld, listening,
                 active_requests, idle_for, im_active, im_idle_for, pmonitor,
                 pm_slept, dead_for, pm_delay, hpc, hkind, hreply, hwait,
                 retcode>>
  /\ UNCHANGED notLife

\* the parent process ends
p_parent_exits ==
  /\ ppid # 0
  /\ ppid_alive
  /\ mpc # "start"
  /\ ppid_alive' = FALSE
  /\ dead_for' = 0
  /\ UNCHANGED <<mainVars, mpc, statefile, lockheld, listening,
                 active_requests, idle_for, imon, im_active, im_idle_for,
                 im_slept, pmonitor, pm_slept, shutdown_request, requested_by,
                 pm_delay, hpc, hkind, hreply, hwait, retcode>>
  /\ UNCHANGED notLife

\* _parent_monitor after its sleep: when the parent is gone it starts the
\* shutdown thread and returns, else it sleeps again
p_look ==
  /\ Alive
  /\ pmonitor = "sleep"
  /\ pm_slept
  /\ IF ~IsPidAlive
       THEN /\ StartShutdown("parent")
            /\ pm_delay' = dead_for
            /\ pmonitor' = "done"
            /\ UNCHANGED pm_slept
       ELSE /\ pm_slept' = FALSE
            /\ UNCHANGED <<pmonitor, shutdown_request, requested_by, pm_delay>>
  /\ UNCHANGED <<mainVars, ppid_alive, mpc, statefile, lockheld, listening,
                 active_requests, idle_for, imon, im_active, im_idle_for,
                 im_slept, dead_for, hpc, hkind, hreply, hwait, retcode>>
  /\ UNCHANGED notLife

\* Handler.handle begins on an accepted connection: under the activity lock
\* active_requests += 1 and last_activity = now; the line is read
h_accept(c, kind) ==
  /\ mpc = "serving"
  /\ hpc[c] = "idle"
  /\ \A b \in Conns : b < c => hpc[b] # "idle"
  /\ kind \in HandlerKinds(variant)
  /\ active_requests' = active_requests + 1
  /\ idle_for' = 0
  /\ hkind' = [hkind EXCEPT ![c] = kind]
  /\ hwait' = [hwait EXCEPT ![c] = IF kind = "bounded" THEN HandlerWait ELSE 0]
  /\ hpc' = [hpc EXCEPT ![c] = "handling"]
  /\ UNCHANGED <<mainVars, ppid_alive, mpc, statefile, lockheld, listening,
                 imon, im_active, im_idle_for, im_slept, pmonitor, pm_slept,
                 shutdown_request, requested_by, dead_for, pm_delay, hreply,
                 retcode>>
  /\ UNCHANGED notLife

\* shutdown message: the exit_code 0 response is written
h_shutdown_reply(c) ==
  /\ hpc[c] = "handling"
  /\ hkind[c] = "shutdown"
  /\ hreply' = [hreply EXCEPT ![c] = 0]
  /\ hpc' = [hpc EXCEPT ![c] = "replied"]
  /\ UNCHANGED <<mainVars, ppid_alive, mpc, statefile, lockheld, listening,
                 active_requests, idle_for, imon, im_active, im_idle_for,
                 im_slept, pmonitor, pm_slept, shutdown_request, requested_by,
                 dead_for, pm_delay, hkind, hwait, retcode>>
  /\ UNCHANGED notLife

\* shutdown message: the shutdown thread is started and handle returns
h_shutdown_start(c) ==
  /\ hpc[c] = "replied"
  /\ StartShutdown("message")
  /\ hpc' = [hpc EXCEPT ![c] = "finishing"]
  /\ UNCHANGED <<mainVars, ppid_alive, mpc, statefile, lockheld, listening,
                 active_requests, idle_for, imon, im_active, im_idle_for,
                 im_slept, pmonitor, pm_slept, dead_for, pm_delay, hkind,
                 hreply, hwait, retcode>>
  /\ UNCHANGED notLife

\* request: the task's done_event is set while the handler waits
h_task_done(c) ==
  /\ hpc[c] = "handling"
  /\ hkind[c] \in {"bounded", "unbounded"}
  /\ hreply' = [hreply EXCEPT ![c] = 0]
  /\ hpc' = [hpc EXCEPT ![c] = "finishing"]
  /\ UNCHANGED <<mainVars, ppid_alive, mpc, statefile, lockheld, listening,
                 active_requests, idle_for, imon, im_active, im_idle_for,
                 im_slept, pmonitor, pm_slept, shutdown_request, requested_by,
                 dead_for, pm_delay, hkind, hwait, retcode>>
  /\ UNCHANGED notLife

\* request: done_event.wait(timeout_s + 5) runs out, exit_code 2
h_wait_out(c) ==
  /\ hpc[c] = "handling"
  /\ hkind[c] = "bounded"
  /\ hwait[c] = 0
  /\ hreply' = [hreply EXCEPT ![c] = 2]
  /\ hpc' = [hpc EXCEPT ![c] = "finishing"]
  /\ UNCHANGED <<mainVars, ppid_alive, mpc, statefile, lockheld, listening,
                 active_requests, idle_for, imon, im_active, im_idle_for,
                 im_slept, pmonitor, pm_slept, shutdown_request, requested_by,
                 dead_for, pm_delay, hkind, hwait, retcode>>
  /\ UNCHANGED notLife

\* Handler.finish: under the activity lock active_requests -= 1 and
\* last_activity = now; the handler thread ends
h_finish(c) ==
  /\ hpc[c] = "finishing"
  /\ active_requests' = IF active_requests > 0 THEN active_requests - 1
                                               ELSE active_requests
  /\ idle_for' = 0
  /\ hpc' = [hpc EXCEPT ![c] = "ended"]
  /\ UNCHANGED <<mainVars, ppid_alive, mpc, statefile, lockheld, listening,
                 imon, im_active, im_idle_for, im_slept, pmonitor, pm_slept,
                 shutdown_request, requested_by, dead_for, pm_delay, hkind,
                 hreply, hwait, retcode>>
  /\ UNCHANGED notLife

\* another process re-writes the state file with its own pid, between the
\* daemon's own write and its clean-up (an earlier write is overwritten by
\* _write_state)
foreign_write ==
  /\ mpc \in {"serving", "stopped"}
  /\ statefile # Other
  /\ statefile' = Other
  /\ UNCHANGED <<mainVars, ppid_alive, mpc, lockheld, listening,
                 active_requests, idle_for, imon, im_active, im_idle_for,
                 im_slept, pmonitor, pm_slept, shutdown_request, requested_by,
                 dead_for, pm_delay, hpc, hkind, hreply, hwait, retcode>>
  /\ UNCHANGED notLife

\* Half a second passes.  A sleep or a bounded wait that has run out is
\* acted on before more time passes, and so is the monitor's comparison,
\* which follows its read without blocking.
LifeTick ==
  /\ Alive
  /\ ~(imon = "sleep" /\ im_slept)
  /\ imon # "read"
  /\ ~(pmonitor = "sleep" /\ pm_slept)
  /\ \A c \in Conns :
       ~(hpc[c] = "handling" /\ hkind[c] = "bounded" /\ hwait[c] = 0)
  /\ idle_for' = Min(idle_for + 1, IdleTimeout)
  /\ im_slept' = (imon = "sleep")
  /\ pm_slept' = (pmonitor = "sleep")
  /\ hwait' = [c \in Conns |-> IF hwait[c] > 0 THEN hwait[c] - 1 ELSE 0]
  /\ dead_for' = IF dead_for = NotDead THEN NotDead
                 ELSE Min(dead_for + 1, PollSleep + 1)
  /\ UNCHANGED <<mainVars, ppid_alive, mpc, statefile, lockheld, listening,
                 active_requests, imon, im_active, im_idle_for, pmonitor,
                 shutdown_request, requested_by, pm_delay, hpc, hkind, hreply,
                 retcode>>
  /\ UNCHANGED notLife

(***************************************************************************)
(* ccb_protocol.py called on its own: the prompt wrapper and the two       *)
(* readers of the done line, on every text of a few lines.  A text is the  *)
(* sequence of its lines; a line is what it says once surrounding          *)
(* whitespace is dropped, which is what the done-line pattern looks at.    *)
(***************************************************************************)
MaxLines == 3

REQ_ID_PREFIX == "CCB_REQ_ID:"
ReqIdLine(r) == <<REQ_ID_PREFIX, r>>
HarnessLine == <<"HARNESS_DONE", "">>
ImportantLine == <<"IMPORTANT:", "">>
HintLine(hint) == <<"-", hint>>
EndInstructionLine == <<"- End your reply with this exact final line", "">>

\* The reply hint the wrapper writes.
ReplyEnglish == "Reply in English."
ReplyHint == "Reply normally."

ReplyLines == Lines \cup {HarnessLine}
MessageLines == {BlankLine, TextLine}

SeqsUpTo(S, n) == UNION {[1..k -> S] : k \in 0..n}
Texts == SeqsUpTo(ReplyLines, MaxLines)
Messages == SeqsUpTo(MessageLines, MaxLines - 1)

\* wrap_codex_prompt: the request id line, a blank line, the message
\* without its trailing whitespace, a blank line, the instructions and the
\* done line, each ended by a newline
wrap_codex_prompt(message, r) ==
  <<ReqIdLine(r), BlankLine>> \o rstrip(message) \o
  <<BlankLine, ImportantLine, HintLine(ReplyHint), EndInstructionLine,
    DoneLine(r)>>

NoCall == "none"
NoValue == <<"none">>

ProtoIdle ==
  /\ p_text = <<>>
  /\ p_message = <<>>
  /\ p_req_id = req_id
  /\ p_called = NoCall
  /\ p_result = NoValue

ProtoInit ==
  /\ p_text \in Texts
  /\ p_message \in Messages
  /\ p_req_id \in ReqIds
  /\ p_called = NoCall
  /\ p_result = NoValue

\* is_done_text(text, req_id)
call_is_done_text ==
  /\ p_called = NoCall
  /\ p_called' = "is_done_text"
  /\ p_result' = is_done_text(p_text, p_req_id)
  /\ UNCHANGED <<p_text, p_message, p_req_id>>
  /\ UNCHANGED notProto

\* strip_done_text(text, req_id)
call_strip_done_text ==
  /\ p_called = NoCall
  /\ p_called' = "strip_done_text"
  /\ p_result' = strip_done_text(p_text, p_req_id)
  /\ UNCHANGED <<p_text, p_message, p_req_id>>
  /\ UNCHANGED notProto

\* wrap_codex_prompt(message, req_id)
call_wrap_codex_prompt ==
  /\ p_called = NoCall
  /\ p_called' = "wrap_codex_prompt"
  /\ p_result' = wrap_codex_prompt(p_message, p_req_id)
  /\ UNCHANGED <<p_text, p_message, p_req_id>>
  /\ UNCHANGED notProto

(***************************************************************************)
(* gaskd: one request and the project's session record, which carries the  *)
(* `active` flag here.  gaskd_session.load_project_session and              *)
(* GaskdServer's _SessionWorker._handle_task up to the prompt;              *)
(* oaskd_session.py and oaskd_daemon.py read the record the same way.       *)
(***************************************************************************)
\* The session file's contents with the lifecycle tooling's `active` flag.
WithActive(r, a) ==
  [exists |-> r.exists, active |-> a, terminal |-> r.terminal,
   marker |-> r.marker, pane |-> r.pane, sid |-> r.sid]

FlaggedRecords ==
  {WithActive(NoRec, FALSE)} \cup
  {WithActive(r, a) : r \in SessionRecords \ {NoRec}, a \in BOOLEAN}

\* load_project_session returned None.
NoSession == WithActive(NoRec, FALSE)

\* load_project_session: the record, when the file is found and holds a
\* non-empty JSON object
load_project_session(rec) ==
  IF rec.exists THEN rec ELSE NoSession

SessIdle ==
  /\ g_pc = "off"
  /\ g_session = NoSession
  /\ g_pane = ""
  /\ g_injected = FALSE
  /\ g_exit = NoResult

SessInit ==
  /\ sess \in FlaggedRecords
  /\ paneAlive \in SUBSET Panes
  /\ kpc = [t \in Tasks |-> "idle"]
  /\ kkey = [t \in Tasks |-> UnknownKey]
  /\ kresult = [t \in Tasks |-> NoResult]
  /\ kdone = [t \in Tasks |-> FALSE]
  /\ kw = [k \in LaneKeys |-> NoLane]
  /\ kenq = <<>>
  /\ g_pc = "start"
  /\ g_session = NoSession
  /\ g_pane = ""
  /\ g_injected = FALSE
  /\ g_exit = NoResult

laneRest == <<kpc, kkey, kresult, kdone, kw, kenq>>
notSess == <<poolVars, taskVars, srvVars, lifeVars, protoVars,
             reqVars, keyVars, recvVars, logVars, mailVars,
             replyVars, queueVars, tailVars, paneVars, gemVars,
             ocVars, alVars, drVars>>

\* the lifecycle tooling re-writes the session file
g_rewrite(r) ==
  /\ g_pc # "off"
  /\ sess' = r
  /\ UNCHANGED <<paneAlive, laneRest, sessVars>>
  /\ UNCHANGED notSess

\* the pane is closed
g_pane_dies(pn) ==
  /\ g_pc # "off"
  /\ pn \in paneAlive
  /\ paneAlive' = paneAlive \ {pn}
  /\ UNCHANGED <<sess, laneRest, sessVars>>
  /\ UNCHANGED notSess

\* _handle_task: session = load_project_session(work_dir); without one the
\* result is exit_code 1 "No active Gemini session found"
g_load ==
  /\ g_pc = "start"
  /\ g_session' = load_project_session(sess)
  /\ IF g_session' = NoSession
       THEN g_pc' = "done" /\ g_exit' = 1
       ELSE g_pc' = "loaded" /\ UNCHANGED g_exit
  /\ UNCHANGED <<sess, paneAlive, laneRest, g_pane, g_injected>>
  /\ UNCHANGED notSess

\* _handle_task: ok, pane_or_err = session.ensure_pane(); a pane found by
\* its title marker is written back to the session file
g_ensure_pane ==
  /\ g_pc = "loaded"
  /\ LET e == ensure_pane(g_session)
     IN  IF ~e.ok
           THEN /\ g_pc' = "done"
                /\ g_exit' = 1
                /\ UNCHANGED <<sess, g_pane, g_session>>
           ELSE /\ g_pc' = "ready"
                /\ g_pane' = e.pane
                /\ g_session' = IF e.wrote THEN [g_session EXCEPT !.pane = e.pane]
                                           ELSE g_session
                /\ sess' = IF e.wrote THEN g_session' ELSE sess
                /\ UNCHANGED g_exit
  /\ UNCHANGED <<paneAlive, laneRest, g_injected>>
  /\ UNCHANGED notSess

\* _handle_task: backend.send_text(pane_id, prompt)
g_send ==
  /\ g_pc = "ready"
  /\ g_injected' = TRUE
  /\ g_pc' = "waiting"
  /\ UNCHANGED <<sess, paneAlive, laneRest, g_session, g_pane, g_exit>>
  /\ UNCHANGED notSess

\* _handle_task: the wait loop ends with the done line seen (0), at the
\* deadline (2), or when the pane is found dead (1)
g_result(e) ==
  /\ g_pc = "waiting"
  /\ e = 1 => g_pane \notin paneAlive
  /\ g_exit' = e
  /\ g_pc' = "done"
  /\ UNCHANGED <<sess, paneAlive, laneRest, g_session, g_pane, g_injected>>
  /\ UNCHANGED notSess

(***************************************************************************)
(* ccb_protocol.py: make_req_id, and the req_id a task gets in             *)
(* _UnifiedWorkerPool.submit (askd/daemon.py) and _WorkerPool.submit       *)
(* (caskd_daemon.py).  A req id is a sequence of characters.               *)
(***************************************************************************)
MaxSubmits == 3
\* secrets.token_hex(16)
TokenBytes == 16

HexDigits ==
  <<"0", "1", "2", "3", "4", "5", "6", "7", "8", "9", "a", "b", "c", "d", "e", "f">>
HexAlphabet == {HexDigits[i] : i \in DOMAIN HexDigits}
\* One byte as two hexadecimal digits.
Hex(b) == <<HexDigits[(b \div 16) + 1], HexDigits[(b % 16) + 1]>>
RECURSIVE hexlify(_)
\* binascii.hexlify, as secrets.token_hex applies it to the random bytes.
hexlify(bytes) ==
  IF bytes = <<>> THEN <<>> ELSE Hex(Head(bytes)) \o hexlify(Tail(bytes))

\* Byte strings the system's random source may hand out: 16 equal bytes of
\* one of these values.
ByteSamples == {0, 9, 90, 171, 255}
RandomBytes == {[i \in 1..TokenBytes |-> b] : b \in ByteSamples}
\* make_req_id: secrets.token_hex(16).  Of 2^128 equally likely values the
\* one drawn is taken to differ from every req id the process already holds.
make_req_id(held) == {hexlify(bs) : bs \in RandomBytes} \ held

\* msg.get("req_id") of a request: absent or empty (<<>>), the 32 hex digits
\* a client read from an earlier response, 32 upper-case characters, "abc".
SuppliedReqIds ==
  {<<>>, hexlify([i \in 1..TokenBytes |-> 171]),
   [i \in 1..(2 * TokenBytes) |-> "A"], <<"a", "b", "c">>}

HeldReqIds == {q_tasks[i].req_id : i \in DOMAIN q_tasks}

ReqInit == q_tasks = <<>>

\* What a submit leaves alone.
notReq == <<poolVars, laneVars, taskVars, srvVars, lifeVars, protoVars,
            sessVars, keyVars, recvVars, logVars, mailVars,
            replyVars, queueVars, tailVars, paneVars, gemVars, ocVars,
            alVars, drVars>>

\* _handle_request: req_id=str(msg.get("req_id")) if msg.get("req_id") else
\* None; submit: req_id = request.req_id or make_req_id(); the task is built
\* with it.  caskd's submit always calls make_req_id().
q_submit(supplied) ==
  /\ Len(q_tasks) < MaxSubmits
  /\ \E r \in (IF supplied # <<>> THEN {supplied} ELSE make_req_id(HeldReqIds)) :
       q_tasks' = Append(q_tasks, [req_id |-> r, supplied |-> supplied # <<>>])
  /\ UNCHANGED notReq

(***************************************************************************)
(* gaskd_session.py / oaskd_session.py: compute_session_key as two submits *)
(* for one project call it, with one identifier of the session record      *)
(* rewritten in between, by ensure_pane or by the session tooling.         *)
(***************************************************************************)
Markers == {"m1", "m2"}
PaneIds == {"p0", "p1"}
SessionIds == {"s1", "s2"}

\* Session records of a project: each identifier present or not.
KeyRecords ==
  [exists : {TRUE}, terminal : {"wezterm"}, marker : Markers \cup {""},
   pane : PaneIds \cup {""}, sid : SessionIds \cup {""}]

Identifiers == {"marker", "pane", "sid"}
IdValues(id) ==
  IF id = "marker" THEN Markers ELSE IF id = "pane" THEN PaneIds ELSE SessionIds

KeyIdle == s_keys = <<>> /\ s_rot = "none"

KeyInit ==
  /\ sess \in KeyRecords
  /\ paneAlive = Panes
  /\ kpc = [t \in Tasks |-> "idle"]
  /\ kkey = [t \in Tasks |-> UnknownKey]
  /\ kresult = [t \in Tasks |-> NoResult]
  /\ kdone = [t \in Tasks |-> FALSE]
  /\ kw = [k \in LaneKeys |-> NoLane]
  /\ kenq = <<>>
  /\ s_keys = <<>>
  /\ s_rot = "none"

\* What the steps around compute_session_key leave alone.
notKey == <<poolVars, taskVars, srvVars, lifeVars, protoVars, sessVars,
            reqVars, recvVars, logVars, mailVars, replyVars,
            queueVars, tailVars, paneVars, gemVars, ocVars, alVars, drVars>>

\* submit: session = load_project_session(work_dir);
\* session_key = compute_session_key(session)
s_submit ==
  /\ Len(s_keys) < 2
  /\ s_keys' = Append(s_keys, [rec |-> sess, key |-> compute_session_key(sess)])
  /\ UNCHANGED <<sess, paneAlive, laneRest, s_rot>>
  /\ UNCHANGED notKey

\* ensure_pane: the recorded pane is gone and the title marker finds another:
\* self.data["pane_id"] = str(resolved); self._write_back()
s_ensure_pane ==
  /\ Len(s_keys) = 1 /\ s_rot = "none"
  /\ ensure_pane(sess).wrote
  /\ sess' = [sess EXCEPT !.pane = ensure_pane(sess).pane]
  /\ s_rot' = "ensure_pane"
  /\ UNCHANGED <<paneAlive, laneRest, s_keys>>
  /\ UNCHANGED notKey

\* The session tooling gives one identifier of the record a new value
\* (update_opencode_binding does so for the provider session id).
s_rotate(id, v) ==
  /\ Len(s_keys) = 1 /\ s_rot = "none"
  /\ sess[id] # "" /\ v # sess[id]
  /\ sess' = [sess EXCEPT ![id] = v]
  /\ s_rot' = id
  /\ UNCHANGED <<paneAlive, laneRest, s_keys>>
  /\ UNCHANGED notKey

(***************************************************************************)
(* askd_rpc.py: _recv_with_deadline.  One tick is half a second; time      *)
(* passes while sock.recv blocks.  A byte is "x" or the newline "nl".      *)
(***************************************************************************)
MaxDeadline == 4
MaxBytes == 3
MaxBufsize == 2

\* The call is made at this time; an earlier deadline has already passed.
RecvStart == 1
\* min(remaining, 1.0): one second
RecvCap == 2
\* sock.settimeout(min(remaining, 1.0))
RecvTimeoutUncapped(remaining) == remaining
RecvTimeout(remaining) == Min(remaining, RecvCap)

Bytes == {"x", "nl"}
\* What one sock.recv(bufsize) can return when data arrives.
Chunks(bufsize) == UNION {[1..n -> Bytes] : n \in 1..bufsize}
\* b"\n" in buf
HasNewline(buf) == \E i \in DOMAIN buf : buf[i] = "nl"

RecvIdle ==
  /\ rv_pc = "off"
  /\ rv_now = 0
  /\ rv_deadline = 0
  /\ rv_bufsize = 1
  /\ rv_max_bytes = 1
  /\ rv_buf = <<>>
  /\ rv_timeout = 0
  /\ rv_waited = 0
  /\ rv_closed = FALSE

\* _recv_with_deadline(sock, deadline, bufsize, max_bytes) is entered: buf = b""
RecvInit ==
  /\ rv_pc = "loop"
  /\ rv_now = RecvStart
  /\ rv_deadline \in 0..MaxDeadline
  /\ rv_bufsize \in 1..MaxBufsize
  /\ rv_max_bytes \in 1..MaxBytes
  /\ rv_buf = <<>>
  /\ rv_timeout = 0
  /\ rv_waited = 0
  /\ rv_closed = FALSE

recvArgs == <<rv_deadline, rv_bufsize, rv_max_bytes>>
\* What the steps of _recv_with_deadline leave alone.
notRecv == <<poolVars, laneVars, taskVars, srvVars, lifeVars, protoVars,
             sessVars, reqVars, keyVars, logVars, mailVars,
             replyVars, queueVars, tailVars, paneVars, gemVars,
             ocVars, alVars, drVars>>

\* while b"\n" not in buf: the condition fails; return buf
rv_return_line ==
  /\ rv_pc = "loop"
  /\ HasNewline(rv_buf)
  /\ rv_pc' = "returned"
  /\ UNCHANGED <<rv_now, recvArgs, rv_buf, rv_timeout, rv_waited, rv_closed>>
  /\ UNCHANGED notRecv

\* remaining = deadline - time.time(); if remaining <= 0: raise CCBTimeoutError
rv_raise_timeout ==
  /\ rv_pc = "loop"
  /\ ~HasNewline(rv_buf)
  /\ rv_deadline - rv_now <= 0
  /\ rv_pc' = "CCBTimeoutError"
  /\ UNCHANGED <<rv_now, recvArgs, rv_buf, rv_timeout, rv_waited, rv_closed>>
  /\ UNCHANGED notRecv

\* sock.settimeout(min(remaining, 1.0)); sock.recv(bufsize) is entered
rv_settimeout ==
  /\ rv_pc = "loop"
  /\ ~HasNewline(rv_buf)
  /\ rv_deadline - rv_now > 0
  /\ rv_timeout' = RecvTimeout(rv_deadline - rv_now)
  /\ rv_waited' = 0
  /\ rv_pc' = "recv"
  /\ UNCHANGED <<rv_now, recvArgs, rv_buf, rv_closed>>
  /\ UNCHANGED notRecv

\* sock.recv returns data: buf += chunk; if len(buf) > max_bytes: raise
\* ValueError
rv_recv_chunk(chunk) ==
  /\ rv_pc = "recv"
  /\ Len(chunk) <= rv_bufsize
  /\ rv_buf' = rv_buf \o chunk
  /\ rv_pc' = IF Len(rv_buf') > rv_max_bytes THEN "ValueError" ELSE "loop"
  /\ UNCHANGED <<rv_now, recvArgs, rv_timeout, rv_waited, rv_closed>>
  /\ UNCHANGED notRecv

\* sock.recv returns b"": if not chunk: break; return buf
rv_recv_closed ==
  /\ rv_pc = "recv"
  /\ rv_closed' = TRUE
  /\ rv_pc' = "returned"
  /\ UNCHANGED <<rv_now, recvArgs, rv_buf, rv_timeout, rv_waited>>
  /\ UNCHANGED notRecv

\* except socket.timeout: continue
rv_recv_timeout ==
  /\ rv_pc = "recv"
  /\ rv_waited >= rv_timeout
  /\ rv_pc' = "loop"
  /\ UNCHANGED <<rv_now, recvArgs, rv_buf, rv_timeout, rv_waited, rv_closed>>
  /\ UNCHANGED notRecv

\* Half a second passes while sock.recv blocks; it blocks no longer than the
\* socket's timeout.
RecvTick ==
  /\ rv_pc = "recv"
  /\ rv_waited < rv_timeout
  /\ rv_now' = rv_now + 1
  /\ rv_waited' = rv_waited + 1
  /\ UNCHANGED <<rv_pc, recvArgs, rv_buf, rv_timeout, rv_closed>>
  /\ UNCHANGED notRecv

(***************************************************************************)
(* mail/daemon.py: MailDaemon.start with is_daemon_running, in two         *)
(* processes started at the same time.  A file holds the pid it records.   *)
(***************************************************************************)
\* The two processes; their names are their pids.
MailProcs == {"ma", "mb"}
\* The pid of a maild that has ended and left its files behind.
StalePid == "old"
NoMailFile == "none"

\* _is_process_alive: the two processes live, the old one does not.
is_process_alive(pid) == pid \in MailProcs

\* _get_running_pid: the first live pid among state.pid and the pid file.
get_running_pid(state, pid_file) ==
  IF state # NoMailFile /\ is_process_alive(state) THEN state
  ELSE IF pid_file # NoMailFile /\ is_process_alive(pid_file) THEN pid_file
  ELSE NoMailFile

MailIdle ==
  /\ ml_pc = [m \in MailProcs |-> "off"]
  /\ ml_state = [m \in MailProcs |-> NoMailFile]
  /\ ml_touched = [m \in MailProcs |-> FALSE]
  /\ mail_state_file = NoMailFile
  /\ mail_pid_file = NoMailFile

\* Both processes enter start; no maild runs, its files may be left over.
MailInit ==
  /\ ml_pc = [m \in MailProcs |-> "start"]
  /\ ml_state = [m \in MailProcs |-> NoMailFile]
  /\ ml_touched = [m \in MailProcs |-> FALSE]
  /\ mail_state_file \in {NoMailFile, StalePid}
  /\ mail_pid_file \in {NoMailFile, StalePid}

\* What the steps of MailDaemon.start leave alone.
notMail == <<poolVars, laneVars, taskVars, srvVars, lifeVars, protoVars,
             sessVars, reqVars, keyVars, recvVars, logVars,
             replyVars, queueVars, tailVars, paneVars, gemVars,
             ocVars, alVars, drVars>>

\* is_daemon_running: state = read_daemon_state()
ml_read_state(m) ==
  /\ ml_pc[m] = "start"
  /\ ml_state' = [ml_state EXCEPT ![m] = mail_state_file]
  /\ ml_pc' = [ml_pc EXCEPT ![m] = "read"]
  /\ UNCHANGED <<ml_touched, mail_state_file, mail_pid_file>>
  /\ UNCHANGED notMail

\* is_daemon_running: running_pid = _get_running_pid(state) finds a live pid;
\* a state read with another pid is written back with the live one; start
\* prints "Daemon already running" and returns.
ml_already_running(m) ==
  /\ ml_pc[m] = "read"
  /\ get_running_pid(ml_state[m], mail_pid_file) # NoMailFile
  /\ IF ml_state[m] # NoMailFile
          /\ ml_state[m] # get_running_pid(ml_state[m], mail_pid_file)
       THEN /\ mail_state_file' = get_running_pid(ml_state[m], mail_pid_file)
            /\ ml_touched' = [ml_touched EXCEPT ![m] = TRUE]
       ELSE UNCHANGED <<mail_state_file, ml_touched>>
  /\ ml_pc' = [ml_pc EXCEPT ![m] = "refused"]
  /\ UNCHANGED <<ml_state, mail_pid_file>>
  /\ UNCHANGED notMail

\* is_daemon_running: no live pid is found; the caller goes on to clean up.
ml_not_running(m) ==
  /\ ml_pc[m] = "read"
  /\ get_running_pid(ml_state[m], mail_pid_file) = NoMailFile
  /\ ml_pc' = [ml_pc EXCEPT ![m] = "remove"]
  /\ UNCHANGED <<ml_state, ml_touched, mail_state_file, mail_pid_file>>
  /\ UNCHANGED notMail

\* remove_daemon_state(): the state file and the pid file are unlinked if
\* they exist; is_daemon_running returns False.
ml_remove_state(m) ==
  /\ ml_pc[m] = "remove"
  /\ mail_state_file' = NoMailFile
  /\ mail_pid_file' = NoMailFile
  /\ ml_touched' = [ml_touched EXCEPT ![m] =
                      @ \/ mail_state_file # NoMailFile \/ mail_pid_file # NoMailFile]
  /\ ml_pc' = [ml_pc EXCEPT ![m] = "write_state"]
  /\ UNCHANGED ml_state
  /\ UNCHANGED notMail

\* start: write_daemon_state(DaemonState(pid=os.getpid(), ...))
ml_write_state(m) ==
  /\ ml_pc[m] = "write_state"
  /\ mail_state_file' = m
  /\ ml_touched' = [ml_touched EXCEPT ![m] = TRUE]
  /\ ml_pc' = [ml_pc EXCEPT ![m] = "write_pid"]
  /\ UNCHANGED <<ml_state, mail_pid_file>>
  /\ UNCHANGED notMail

\* start: the pid file is written; the poller starts and the main loop runs.
ml_write_pid(m) ==
  /\ ml_pc[m] = "write_pid"
  /\ mail_pid_file' = m
  /\ ml_pc' = [ml_pc EXCEPT ![m] = "running"]
  /\ UNCHANGED <<ml_state, ml_touched, mail_state_file>>
  /\ UNCHANGED notMail

(***************************************************************************)
(* caskd_daemon.py: the wait loop of _SessionWorker._handle_task over the  *)
(* transcript.  The reader's contract (capture_state, wait_for_event) is   *)
(* taken from the specification, section 4.3.  One tick is half a second.  *)
(***************************************************************************)
MaxEntries == 4
\* req.timeout_s: three seconds
ReplyTimeout == 6
\* anchor_grace_deadline = min(deadline, time.time() + 1.5)
AnchorGrace == 3
\* anchor_collect_grace = min(deadline, time.time() + 2.0)
CollectGrace == 4
\* wait_for_event(state, min(remaining, 0.5))
EventWait == 1

\* A transcript entry: who wrote it, for which request ("mine" is the
\* request at hand, "old" an earlier one), and whether the text ends with
\* the done line of that request.
Entry(role, owner, done) == [role |-> role, owner |-> owner, done |-> done]
Anchor(owner) == Entry("user", owner, FALSE)
\* What the log holds when the request begins: nothing, or an earlier
\* request with its reply.
Histories ==
  {<<>>, <<Anchor("old"), Entry("assistant", "old", TRUE)>>}

\* What the TUI may log next: text it still produces for the earlier request
\* (until it turns to ours), then our prompt, then its reply to it.
MayLog(tr) ==
  LET anchored == \E i \in DOMAIN tr : tr[i] = Anchor("mine")
      answered == \E i \in DOMAIN tr : tr[i] = Entry("assistant", "mine", TRUE)
  IN  IF ~anchored
        THEN {Anchor("mine")} \cup
             (IF tr # <<>> THEN {Entry("assistant", "old", d) : d \in BOOLEAN}
              ELSE {})
      ELSE IF ~answered
        THEN {Entry("assistant", "mine", d) : d \in BOOLEAN}
      ELSE {}

\* is_done_text(combined, task.req_id) on what was collected: the last
\* chunk ends with this request's done line.
ChunksDone(collected) ==
  /\ collected # <<>>
  /\ collected[Len(collected)].entry.owner = "mine"
  /\ collected[Len(collected)].entry.done

ReplyIdle ==
  /\ x_pc = "off"
  /\ x_now = 0
  /\ x_tr = <<>>
  /\ x_cursor = 0
  /\ x_rpos = 0
  /\ x_stale = FALSE
  /\ x_filter = FALSE
  /\ x_waited = 0
  /\ x_anchor_seen = FALSE
  /\ x_rebounded = FALSE
  /\ x_saw_any_event = FALSE
  /\ x_saw_in_grace = FALSE
  /\ x_chunks = <<>>

\* state = reader.capture_state(); backend.send_text(pane_id, prompt); the
\* locals of the loop are set up.
ReplyInit ==
  /\ x_pc = "loop"
  /\ x_now = 0
  /\ x_tr \in Histories
  /\ x_cursor = Len(x_tr)
  /\ x_rpos = Len(x_tr)
  /\ x_filter \in BOOLEAN
  /\ x_stale \in (IF x_filter THEN BOOLEAN ELSE {FALSE})
  /\ x_waited = 0
  /\ x_anchor_seen = FALSE
  /\ x_rebounded = FALSE
  /\ x_saw_any_event = FALSE
  /\ x_saw_in_grace = FALSE
  /\ x_chunks = <<>>

replyArgs == <<x_cursor, x_filter>>
\* What the steps of the loop leave alone.
notReply == <<poolVars, laneVars, taskVars, srvVars, lifeVars, protoVars,
              sessVars, reqVars, keyVars, recvVars, logVars,
              mailVars, queueVars, tailVars, paneVars, gemVars,
              ocVars, alVars, drVars>>

\* deadline = time.time() + float(req.timeout_s)
Remaining == ReplyTimeout - x_now
\* The reader has an entry to hand out: one it has not passed, in a log it
\* follows.
EventReady == ~x_stale /\ x_rpos < Len(x_tr)

\* The TUI appends an entry to its log.
x_tui_logs(e) ==
  /\ x_pc = "loop"
  /\ Len(x_tr) < MaxEntries
  /\ e \in MayLog(x_tr)
  /\ x_tr' = Append(x_tr, e)
  /\ UNCHANGED <<x_pc, x_now, replyArgs, x_rpos, x_stale, x_waited,
                 x_anchor_seen, x_rebounded, x_saw_any_event, x_saw_in_grace, x_chunks>>
  /\ UNCHANGED notReply

\* remaining = deadline - time.time(); if remaining <= 0: break
x_deadline ==
  /\ x_pc = "loop"
  /\ Remaining <= 0
  /\ x_pc' = "return"
  /\ UNCHANGED <<x_now, x_tr, replyArgs, x_rpos, x_stale, x_waited,
                 x_anchor_seen, x_rebounded, x_saw_any_event, x_saw_in_grace, x_chunks>>
  /\ UNCHANGED notReply

\* wait_for_event returns the next entry.  A user entry with our
\* CCB_REQ_ID sets anchor_seen; assistant text is skipped while the anchor
\* is unseen and the grace period runs, and is else appended to chunks; the
\* loop breaks when is_done_text.
x_event ==
  /\ x_pc = "loop"
  /\ Remaining > 0
  /\ EventReady
  /\ LET e == x_tr[x_rpos + 1]
     IN  /\ x_rpos' = x_rpos + 1
         /\ x_waited' = 0
         /\ x_saw_any_event' = TRUE
         /\ x_saw_in_grace' = (x_saw_in_grace \/ x_now < AnchorGrace)
         /\ x_anchor_seen' = (x_anchor_seen \/ e = Anchor("mine"))
         /\ x_chunks' =
              IF e.role = "assistant" /\ (x_anchor_seen \/ x_now >= CollectGrace)
                THEN Append(x_chunks, [at |-> x_rpos + 1, entry |-> e])
                ELSE x_chunks
         /\ x_pc' = IF x_chunks' # x_chunks /\ ChunksDone(x_chunks')
                      THEN "return" ELSE "loop"
  /\ UNCHANGED <<x_now, x_tr, replyArgs, x_stale, x_rebounded>>
  /\ UNCHANGED notReply

\* wait_for_event returns None after its timeout.  The escape hatch: no
\* anchor yet, the grace deadline passed and a session id filter set: the
\* reader is rebound to the latest log and placed tail_bytes before its end,
\* state = _tail_state_for_log(log_hint, tail_bytes=tail_bytes).
x_none ==
  /\ x_pc = "loop"
  /\ Remaining > 0
  /\ ~EventReady
  /\ x_waited >= Min(Remaining, EventWait)
  /\ x_waited' = 0
  /\ IF ~x_rebounded /\ ~x_anchor_seen /\ x_now >= Min(ReplyTimeout, AnchorGrace)
          /\ x_filter
       THEN /\ x_rebounded' = TRUE
            /\ x_stale' = FALSE
            /\ x_filter' = FALSE
            /\ x_rpos' \in 0..Len(x_tr)
       ELSE UNCHANGED <<x_rebounded, x_stale, x_filter, x_rpos>>
  /\ UNCHANGED <<x_pc, x_now, x_tr, x_cursor, x_anchor_seen, x_saw_any_event, x_saw_in_grace,
                 x_chunks>>
  /\ UNCHANGED notReply

\* Half a second passes while wait_for_event blocks.
ReplyTick ==
  /\ x_pc = "loop"
  /\ Remaining > 0
  /\ ~EventReady
  /\ x_waited < Min(Remaining, EventWait)
  /\ x_now' = x_now + 1
  /\ x_waited' = x_waited + 1
  /\ UNCHANGED <<x_pc, x_tr, replyArgs, x_rpos, x_stale, x_anchor_seen,
                 x_rebounded, x_saw_any_event, x_saw_in_grace, x_chunks>>
  /\ UNCHANGED notReply

(***************************************************************************)
(* worker_pool.py, caskd_daemon.py, askd/daemon.py: several submitters of  *)
(* one session key, each waiting timeout_s + 5.0 for its task, and the one *)
(* worker thread that takes the tasks from the queue in turn.              *)
(***************************************************************************)
MaxQueued == 2
QueuedTasks == 1..MaxQueued
\* A request that may take long, and one that gives up soon.
LongTimeout == WaitSlack + 2
QueueTimeouts == {1, LongTimeout}
\* The clock of this model stops after the longest wait.
MaxQueueNow == LongTimeout + WaitSlack + 1
NoExit == -1

QueueIdle ==
  /\ qt_now = 0
  /\ qt_q = <<>>
  /\ qt_handler = [t \in QueuedTasks |-> "none"]
  /\ qt_timeout = [t \in QueuedTasks |-> 0]
  /\ qt_until = [t \in QueuedTasks |-> 0]
  /\ qt_exit = [t \in QueuedTasks |-> NoExit]
  /\ qt_done = [t \in QueuedTasks |-> FALSE]
  /\ qt_wpc = "get"
  /\ qt_cur = NoTask
  /\ qt_deadline = 0
  /\ qt_sent = {}

\* What the steps of the queue leave alone.
notQueue == <<poolVars, laneVars, taskVars, srvVars, lifeVars, protoVars,
              sessVars, reqVars, keyVars, recvVars, logVars, mailVars,
              replyVars, tailVars, paneVars, gemVars, ocVars, alVars, drVars>>

\* task = self.server.pool.submit(req): the task is put on the session's
\* queue; task.done_event.wait(timeout=req.timeout_s + 5.0) begins.
qt_submit(t, t_s) ==
  /\ qt_handler[t] = "none"
  /\ \A u \in QueuedTasks : u < t => qt_handler[u] # "none"
  /\ qt_q' = Append(qt_q, t)
  /\ qt_handler' = [qt_handler EXCEPT ![t] = "waiting"]
  /\ qt_timeout' = [qt_timeout EXCEPT ![t] = t_s]
  /\ qt_until' = [qt_until EXCEPT ![t] = qt_now + WaitTimeout(t_s)]
  /\ UNCHANGED <<qt_now, qt_exit, qt_done, qt_wpc, qt_cur, qt_deadline, qt_sent>>
  /\ UNCHANGED notQueue

\* The wait returns because done_event is set: the result is answered.
qt_wait_signalled(t) ==
  /\ qt_handler[t] = "waiting"
  /\ qt_done[t]
  /\ qt_handler' = [qt_handler EXCEPT ![t] = "answered"]
  /\ qt_exit' = [qt_exit EXCEPT ![t] = 0]
  /\ UNCHANGED <<qt_now, qt_q, qt_timeout, qt_until, qt_done, qt_wpc, qt_cur,
                 qt_deadline, qt_sent>>
  /\ UNCHANGED notQueue

\* The wait times out; result = task.result is still None: exit_code 2 and
\* an empty reply are answered.  Nothing is done about the task.
qt_wait_expires(t) ==
  /\ qt_handler[t] = "waiting"
  /\ ~qt_done[t]
  /\ qt_now >= qt_until[t]
  /\ qt_handler' = [qt_handler EXCEPT ![t] = "answered"]
  /\ qt_exit' = [qt_exit EXCEPT ![t] = 2]
  /\ UNCHANGED <<qt_now, qt_q, qt_timeout, qt_until, qt_done, qt_wpc, qt_cur,
                 qt_deadline, qt_sent>>
  /\ UNCHANGED notQueue

\* BaseSessionWorker.run: task = self._q.get(timeout=0.2)
qt_get ==
  /\ qt_wpc = "get"
  /\ qt_q # <<>>
  /\ qt_cur' = Head(qt_q)
  /\ qt_q' = Tail(qt_q)
  /\ qt_wpc' = "handle"
  /\ UNCHANGED <<qt_now, qt_handler, qt_timeout, qt_until, qt_exit, qt_done,
                 qt_deadline, qt_sent>>
  /\ UNCHANGED notQueue

\* _handle_task: state = reader.capture_state(); backend.send_text(pane_id,
\* prompt); deadline = time.time() + float(req.timeout_s)
qt_send ==
  /\ qt_wpc = "handle"
  /\ qt_sent' = qt_sent \cup {qt_cur}
  /\ qt_deadline' = qt_now + qt_timeout[qt_cur]
  /\ qt_wpc' = "loop"
  /\ UNCHANGED <<qt_now, qt_q, qt_handler, qt_timeout, qt_until, qt_exit,
                 qt_done, qt_cur>>
  /\ UNCHANGED notQueue

\* The loop ends, by the done line or by the deadline; run sets task.result
\* and, in its finally, task.done_event.
qt_return ==
  /\ qt_wpc = "loop"
  /\ qt_done' = [qt_done EXCEPT ![qt_cur] = TRUE]
  /\ qt_wpc' = "get"
  /\ UNCHANGED <<qt_now, qt_q, qt_handler, qt_timeout, qt_until, qt_exit,
                 qt_cur, qt_deadline, qt_sent>>
  /\ UNCHANGED notQueue

\* A second passes.  No thread sleeps over a step it can take at once: a
\* submitter whose wait is over answers, the worker takes a queued task and
\* sends its prompt without delay, and its loop ends at the deadline.
QueueTick ==
  /\ qt_now < MaxQueueNow
  /\ \A t \in QueuedTasks :
       qt_handler[t] = "waiting" => (~qt_done[t] /\ qt_now < qt_until[t])
  /\ qt_wpc = "get" => qt_q = <<>>
  /\ qt_wpc # "handle"
  /\ qt_wpc = "loop" => qt_now < qt_deadline
  /\ qt_now' = qt_now + 1
  /\ UNCHANGED <<qt_q, qt_handler, qt_timeout, qt_until, qt_exit, qt_done,
                 qt_wpc, qt_cur, qt_deadline, qt_sent>>
  /\ UNCHANGED notQueue

(***************************************************************************)
(* caskd_daemon.py: _tail_state_for_log and the tail_bytes it is called    *)
(* with by the escape hatch.  Sizes are counted in units of one MiB.       *)
(***************************************************************************)
MaxSize == 4
MaxTailEnv == 3
\* str(1024 * 1024 * 2)
DefaultTailBytes == 2
NoOffset == -1

\* What the environment may hold for CCB_CASKD_REBIND_TAIL_BYTES: nothing,
\* the empty string, the text of an integer, or some other text.
EnvValues ==
  {<<"unset", 0>>, <<"empty", 0>>, <<"text", 0>>} \cup
  {<<"int", n>> : n \in -1..MaxTailEnv}

\* int(os.environ.get(NAME, str(1024 * 1024 * 2)) or (1024 * 1024 * 2)) for
\* the values on which int() does not raise.
tail_bytes_of(env) ==
  IF env[1] \in {"unset", "empty"} THEN DefaultTailBytes ELSE env[2]

MaxZero(n) == IF n > 0 THEN n ELSE 0
\* _tail_state_for_log(log_path, tail_bytes=tail_bytes)["offset"]
tail_state_for_log(log, stat_ok, size, tail_bytes) ==
  IF ~log THEN 0
  ELSE MaxZero((IF stat_ok THEN size ELSE 0) - tail_bytes)

TailIdle ==
  /\ tl_pc = "off"
  /\ tl_env = <<"unset", 0>>
  /\ tl_log = FALSE
  /\ tl_stat_ok = FALSE
  /\ tl_size = 0
  /\ tl_tail_bytes = 0
  /\ tl_offset = NoOffset

TailInit ==
  /\ tl_pc = "env"
  /\ tl_env \in EnvValues
  /\ tl_log \in BOOLEAN
  /\ tl_stat_ok \in (IF tl_log THEN BOOLEAN ELSE {FALSE})
  /\ tl_size \in (IF tl_log THEN 0..MaxSize ELSE {0})
  /\ tl_tail_bytes = 0
  /\ tl_offset = NoOffset

tailArgs == <<tl_env, tl_log, tl_stat_ok, tl_size>>
\* What the steps of the hatch leave alone.
notTail == <<poolVars, laneVars, taskVars, srvVars, lifeVars, protoVars,
             sessVars, reqVars, keyVars, recvVars, logVars, mailVars, replyVars,
             queueVars, paneVars, gemVars, ocVars, alVars, drVars>>

\* tail_bytes = int(os.environ.get("CCB_CASKD_REBIND_TAIL_BYTES", ...) or ...)
tl_read_env ==
  /\ tl_pc = "env"
  /\ tl_env[1] # "text"
  /\ tl_tail_bytes' = tail_bytes_of(tl_env)
  /\ tl_pc' = "hatch"
  /\ UNCHANGED <<tailArgs, tl_offset>>
  /\ UNCHANGED notTail

\* int() raises ValueError on a text that is no integer: _handle_task ends
\* before its loop and the hatch is never reached.
tl_env_raises ==
  /\ tl_pc = "env"
  /\ tl_env[1] = "text"
  /\ tl_pc' = "raised"
  /\ UNCHANGED <<tailArgs, tl_tail_bytes, tl_offset>>
  /\ UNCHANGED notTail

\* The hatch: log_hint = reader.current_log_path();
\* state = _tail_state_for_log(log_hint, tail_bytes=tail_bytes)
tl_hatch ==
  /\ tl_pc = "hatch"
  /\ tl_offset' = tail_state_for_log(tl_log, tl_stat_ok, tl_size, tl_tail_bytes)
  /\ tl_pc' = "placed"
  /\ UNCHANGED <<tailArgs, tl_tail_bytes>>
  /\ UNCHANGED notTail

(***************************************************************************)
(* caskd_daemon.py: the check for an interrupted Codex in the periodic     *)
(* pane probe of _handle_task.  The captured text is a sequence of pieces. *)
(***************************************************************************)
MaxPieces == 4
\* The pieces of a pane text: other text, this task's req id (as in its
\* CCB_REQ_ID line), another task's req id, the interruption banner.
Pieces == {"text", "req_id", "other_req_id", "banner"}
PaneTexts == UNION {[1..n -> Pieces] : n \in 0..MaxPieces}
NotFound == -1

\* str.find: the place of the first occurrence, or -1
find(text, piece) ==
  IF \E i \in DOMAIN text : text[i] = piece
    THEN CHOOSE i \in DOMAIN text :
           text[i] = piece /\ \A j \in 1..(i - 1) : text[j] # piece
    ELSE NotFound

\* is_current_interrupt as the probe computes it from the pane text
is_current_interrupt(pane_text) ==
  IF pane_text # <<>> /\ \E i \in DOMAIN pane_text : pane_text[i] = "banner"
    THEN LET req_id_pos == find(pane_text, "req_id")
             interrupt_pos == find(pane_text, "banner")
         IN  \/ (req_id_pos >= 0 /\ interrupt_pos > req_id_pos)
             \/ (req_id_pos < 0 /\ interrupt_pos >= 0)
    ELSE FALSE

PaneIdle ==
  /\ pn_pc = "off"
  /\ pn_get_text = "missing"
  /\ pn_text = <<>>

PaneInit ==
  /\ pn_pc = "check"
  /\ pn_get_text \in {"missing", "raises", "ok"}
  /\ pn_text \in (IF pn_get_text = "ok" THEN PaneTexts ELSE {<<>>})

\* What the steps of the check leave alone.
notPane == <<poolVars, laneVars, taskVars, srvVars, lifeVars, protoVars,
             sessVars, reqVars, keyVars, recvVars, logVars, mailVars, replyVars,
             queueVars, tailVars, gemVars, ocVars, alVars, drVars>>

\* is_current_interrupt: the task returns CaskdResult(exit_code=1, "Codex
\* interrupted ...").
pn_interrupted ==
  /\ pn_pc = "check"
  /\ pn_get_text = "ok"
  /\ is_current_interrupt(pn_text)
  /\ pn_pc' = "abandoned"
  /\ UNCHANGED <<pn_get_text, pn_text>>
  /\ UNCHANGED notPane

\* The backend has no get_text, get_text raises (except Exception: pass),
\* or the text shows no current interrupt: the loop goes on.
pn_goes_on ==
  /\ pn_pc = "check"
  /\ pn_get_text = "ok" => ~is_current_interrupt(pn_text)
  /\ pn_pc' = "goes_on"
  /\ UNCHANGED <<pn_get_text, pn_text>>
  /\ UNCHANGED notPane

(***************************************************************************)
(* gemini_comm.py: GeminiLogReader.capture_state and _read_since over a    *)
(* session file that the Gemini CLI re-writes in place.  A message is      *)
(* <<type, content>>; its id is its place, its hash stands for its content.*)
(***************************************************************************)
MaxMsgs == 3
MaxClock == 2
UserMsg == <<"user", "q">>
\* A gemini message written empty first, and one with its content.
EmptyMsg == <<"gemini", "">>
GeminiMsg == <<"gemini", "text">>
NoLastGemini == <<0, "">>
NoMessage == 0

\* st_size: every message takes room, its content more.
RECURSIVE SizeOf(_)
SizeOf(msgs) ==
  IF msgs = <<>> THEN 1
  ELSE SizeOf(SubSeq(msgs, 1, Len(msgs) - 1)) + 1
       + (IF msgs[Len(msgs)][2] = "" THEN 0 ELSE 1)

\* _extract_last_gemini(data): id and content of the last gemini message
extract_last_gemini(msgs) ==
  IF \E i \in DOMAIN msgs : msgs[i][1] = "gemini"
    THEN LET i == CHOOSE i \in DOMAIN msgs :
                    /\ msgs[i][1] = "gemini"
                    /\ \A j \in (i + 1)..Len(msgs) : msgs[j][1] # "gemini"
         IN  <<i, msgs[i][2]>>
    ELSE NoLastGemini

\* The file has changed since the baseline stat.
Changed(mtime, size, prev_mtime, prev_size) ==
  mtime > prev_mtime \/ size # prev_size

\* The last message is a gemini reply that is not empty.
LastIsReply(msgs) == msgs # <<>> /\ msgs[Len(msgs)] = GeminiMsg

\* for msg in messages[prev_count:]: the last gemini message with content
\* that is not the one recorded as prev_last_gemini; 0 if there is none.
LastNewGemini(msgs, prev_count, prev_last) ==
  LET new == {i \in DOMAIN msgs :
                /\ i > prev_count
                /\ msgs[i] = GeminiMsg
                /\ <<i, msgs[i][2]>> # prev_last}
  IN  IF new = {} THEN 0 ELSE CHOOSE i \in new : \A j \in new : j <= i

GemIdle ==
  /\ gm_pc = "off"
  /\ gm_msgs = <<>>
  /\ gm_pending = <<>>
  /\ gm_writing = FALSE
  /\ gm_size = 0
  /\ gm_mtime = 0
  /\ gm_clock = 0
  /\ gm_unknown = FALSE
  /\ gm_prev_count = 0
  /\ gm_prev_mtime = 0
  /\ gm_prev_size = 0
  /\ gm_prev_last = NoLastGemini
  /\ gm_at_stat = <<>>
  /\ gm_result = NoMessage

\* A session file with some history, written some time ago.
GemHistories == {<<>>, <<UserMsg, GeminiMsg>>, <<UserMsg, EmptyMsg>>}
GemInit ==
  /\ gm_pc = "stat"
  /\ gm_msgs \in GemHistories
  /\ gm_pending = <<>>
  /\ gm_writing = FALSE
  /\ gm_size = SizeOf(gm_msgs)
  /\ gm_mtime = 1
  /\ gm_clock = 1
  /\ gm_unknown = FALSE
  /\ gm_prev_count = 0
  /\ gm_prev_mtime = 0
  /\ gm_prev_size = 0
  /\ gm_prev_last = NoLastGemini
  /\ gm_at_stat = <<>>
  /\ gm_result = NoMessage

fileVars == <<gm_msgs, gm_pending, gm_writing, gm_size, gm_mtime, gm_clock>>
baseVars == <<gm_unknown, gm_prev_count, gm_prev_mtime, gm_prev_size, gm_prev_last>>
\* What the steps of the reader and the file leave alone.
notGem == <<poolVars, laneVars, taskVars, srvVars, lifeVars, protoVars,
            sessVars, reqVars, keyVars, recvVars, logVars, mailVars, replyVars,
            queueVars, tailVars, paneVars, ocVars, alVars, drVars>>

\* The Gemini CLI begins to re-write the file: it appends a message or
\* fills in the content of a gemini message it wrote empty.
gw_begin(kind, partial) ==
  /\ gm_pc \in {"stat", "read", "wait"}
  /\ ~gm_writing
  /\ \/ /\ kind \in {"user", "gemini", "empty"}
        /\ Len(gm_msgs) < MaxMsgs
        /\ gm_pending' = Append(gm_msgs, CASE kind = "user" -> UserMsg
                                           [] kind = "gemini" -> GeminiMsg
                                           [] OTHER -> EmptyMsg)
     \/ /\ kind = "fill"
        /\ gm_msgs # <<>>
        /\ gm_msgs[Len(gm_msgs)] = EmptyMsg
        /\ gm_pending' = [gm_msgs EXCEPT ![Len(gm_msgs)] = GeminiMsg]
  /\ gm_writing' = TRUE
  /\ gm_size' = IF partial THEN SizeOf(gm_pending') - 1 ELSE 0
  /\ gm_mtime' = gm_clock
  /\ UNCHANGED <<gm_pc, gm_msgs, gm_clock, baseVars, gm_at_stat, gm_result>>
  /\ UNCHANGED notGem

\* The write is complete.
gw_end ==
  /\ gm_writing
  /\ gm_msgs' = gm_pending
  /\ gm_writing' = FALSE
  /\ gm_size' = SizeOf(gm_pending)
  /\ gm_mtime' = gm_clock
  /\ UNCHANGED <<gm_pc, gm_pending, gm_clock, baseVars, gm_at_stat, gm_result>>
  /\ UNCHANGED notGem

\* The clock of the file system moves on.
GemTick ==
  /\ gm_pc \in {"stat", "read", "wait"}
  /\ gm_clock < MaxClock
  /\ gm_clock' = gm_clock + 1
  /\ UNCHANGED <<gm_pc, gm_msgs, gm_pending, gm_writing, gm_size, gm_mtime,
                 baseVars, gm_at_stat, gm_result>>
  /\ UNCHANGED notGem

\* capture_state: stat = session.stat(); on OSError mtime, mtime_ns and
\* size keep their 0.
gc_stat(ok) ==
  /\ gm_pc = "stat"
  /\ gm_prev_mtime' = IF ok THEN gm_mtime ELSE 0
  /\ gm_prev_size' = IF ok THEN gm_size ELSE 0
  /\ gm_at_stat' = gm_msgs
  /\ gm_pc' = "read"
  /\ UNCHANGED <<fileVars, gm_unknown, gm_prev_count, gm_prev_last, gm_result>>
  /\ UNCHANGED notGem

\* capture_state: data = self._read_session_json(session), None when the
\* file cannot be parsed or opened: msg_count = -1; else the count and the
\* last gemini message are the baseline.
gc_read(oserror) ==
  /\ gm_pc = "read"
  /\ IF gm_writing \/ oserror
       THEN /\ gm_unknown' = TRUE
            /\ UNCHANGED <<gm_prev_count, gm_prev_last>>
       ELSE /\ gm_unknown' = FALSE
            /\ gm_prev_count' = Len(gm_msgs)
            /\ gm_prev_last' = extract_last_gemini(gm_msgs)
  /\ gm_pc' = "wait"
  /\ UNCHANGED <<fileVars, gm_prev_mtime, gm_prev_size, gm_at_stat, gm_result>>
  /\ UNCHANGED notGem

\* The file could be read in this pass of the loop (a file that has not
\* changed is read again after _force_read_interval).
Readable == gm_pc = "wait" /\ ~gm_writing

\* Unknown baseline, the latest message is a gemini reply that is not
\* empty and the file has changed since the baseline stat: it is returned.
gr_fast_path ==
  /\ Readable
  /\ gm_unknown
  /\ LastIsReply(gm_msgs)
  /\ Changed(gm_mtime, gm_size, gm_prev_mtime, gm_prev_size)
  /\ gm_result' = Len(gm_msgs)
  /\ gm_pc' = "returned"
  /\ UNCHANGED <<fileVars, baseVars, gm_at_stat>>
  /\ UNCHANGED notGem

\* Unknown baseline otherwise: this read is the baseline.
gr_baseline ==
  /\ Readable
  /\ gm_unknown
  /\ ~(LastIsReply(gm_msgs)
       /\ Changed(gm_mtime, gm_size, gm_prev_mtime, gm_prev_size))
  /\ gm_prev_mtime' = gm_mtime
  /\ gm_prev_size' = gm_size
  /\ gm_prev_count' = Len(gm_msgs)
  /\ gm_prev_last' = IF extract_last_gemini(gm_msgs) # NoLastGemini
                       THEN extract_last_gemini(gm_msgs) ELSE gm_prev_last
  /\ gm_unknown' = FALSE
  /\ UNCHANGED <<gm_pc, fileVars, gm_at_stat, gm_result>>
  /\ UNCHANGED notGem

\* Known baseline: more messages than before and a gemini message with
\* content among the new ones, or the last gemini message has changed in
\* place: it is returned.
gr_return ==
  /\ Readable
  /\ ~gm_unknown
  /\ LET new == LastNewGemini(gm_msgs, gm_prev_count, gm_prev_last)
         last == extract_last_gemini(gm_msgs)
     IN  IF Len(gm_msgs) > gm_prev_count
           THEN /\ new # 0
                /\ gm_result' = new
           ELSE /\ last # NoLastGemini
                /\ last[2] # ""
                /\ last # gm_prev_last
                /\ gm_result' = last[1]
  /\ gm_pc' = "returned"
  /\ UNCHANGED <<fileVars, baseVars, gm_at_stat>>
  /\ UNCHANGED notGem

\* Known baseline and nothing to return: the baseline moves to this read.
gr_nothing ==
  /\ Readable
  /\ ~gm_unknown
  /\ LET new == LastNewGemini(gm_msgs, gm_prev_count, gm_prev_last)
         last == extract_last_gemini(gm_msgs)
     IN  /\ IF Len(gm_msgs) > gm_prev_count
              THEN new = 0
              ELSE ~(last # NoLastGemini /\ last[2] # "" /\ last # gm_prev_last)
         /\ gm_prev_last' = IF last = NoLastGemini THEN gm_prev_last
                            ELSE IF last[2] # "" THEN last
                            ELSE <<last[1], gm_prev_last[2]>>
  /\ gm_prev_mtime' = gm_mtime
  /\ gm_prev_size' = gm_size
  /\ gm_prev_count' = Len(gm_msgs)
  /\ UNCHANGED <<gm_pc, fileVars, gm_unknown, gm_at_stat, gm_result>>
  /\ UNCHANGED notGem

\* time.time() >= deadline: None is returned.
gr_deadline ==
  /\ gm_pc = "wait"
  /\ gm_pc' = "timedout"
  /\ UNCHANGED <<fileVars, baseVars, gm_at_stat, gm_result>>
  /\ UNCHANGED notGem

(***************************************************************************)
(* oaskd_daemon.py: _SessionWorker._handle_task under the ProviderLock     *)
(* "opencode", cwd session:<session_key>, which a direct-mode client of    *)
(* the same session takes too.  ProviderLock is taken from the             *)
(* specification: an exclusive lock whose acquire() waits up to timeout.   *)
(***************************************************************************)
MaxDirect == 2
\* lock_timeout = min(300.0, max(1.0, float(req.timeout_s)))
LockTimeoutCap == 300
LockTimeoutFloor == 1
OcTimeouts == {-1, 0, 5, 600}
NoExitCode == -1
lock_timeout_of(t_s) ==
  Min(LockTimeoutCap, IF t_s > LockTimeoutFloor THEN t_s ELSE LockTimeoutFloor)

\* lock.release() by the daemon's task
KeptAfterRelease(holder) == holder
AfterRelease(holder) == IF holder = "daemon" THEN "none" ELSE holder

OcIdle ==
  /\ oc_pc = "off"
  /\ oc_timeout_s = 0
  /\ oc_lock_timeout = 0
  /\ oc_holder = "none"
  /\ oc_injected = 0
  /\ oc_end = "none"
  /\ oc_exit_code = NoExitCode
  /\ oc_direct = 0

OcInit ==
  /\ oc_pc = "acquire"
  /\ oc_timeout_s \in OcTimeouts
  /\ oc_lock_timeout = lock_timeout_of(oc_timeout_s)
  /\ oc_holder \in {"none", "direct"}
  /\ oc_injected = 0
  /\ oc_end = "none"
  /\ oc_exit_code = NoExitCode
  /\ oc_direct = 0

ocArgs == <<oc_timeout_s, oc_lock_timeout>>
\* What the steps of the task and the client leave alone.
notOc == <<poolVars, laneVars, taskVars, srvVars, lifeVars, protoVars,
           sessVars, reqVars, keyVars, recvVars, logVars, mailVars, replyVars,
           queueVars, tailVars, paneVars, gemVars, alVars, drVars>>

\* The direct-mode client takes the lock when it is free.
od_acquire ==
  /\ oc_holder = "none"
  /\ oc_direct < MaxDirect
  /\ oc_holder' = "direct"
  /\ UNCHANGED <<oc_pc, ocArgs, oc_injected, oc_end, oc_exit_code, oc_direct>>
  /\ UNCHANGED notOc

\* The direct-mode client sends its prompt to the pane, holding the lock.
od_send ==
  /\ oc_holder = "direct"
  /\ oc_direct < MaxDirect
  /\ oc_direct' = oc_direct + 1
  /\ UNCHANGED <<oc_pc, ocArgs, oc_holder, oc_injected, oc_end, oc_exit_code>>
  /\ UNCHANGED notOc

\* The direct-mode client is done and releases the lock.
od_release ==
  /\ oc_holder = "direct"
  /\ oc_holder' = "none"
  /\ UNCHANGED <<oc_pc, ocArgs, oc_injected, oc_end, oc_exit_code, oc_direct>>
  /\ UNCHANGED notOc

\* lock.acquire() returns True: the lock is free, at once or after the
\* other holder released it within lock_timeout.
oc_acquire ==
  /\ oc_pc = "acquire"
  /\ oc_holder = "none"
  /\ oc_holder' = "daemon"
  /\ oc_pc' = "load"
  /\ UNCHANGED <<ocArgs, oc_injected, oc_end, oc_exit_code, oc_direct>>
  /\ UNCHANGED notOc

\* lock.acquire() returns False after lock_timeout with the lock still
\* held by the other client: exit_code 1, before the try block.
oc_lock_timeout_expires ==
  /\ oc_pc = "acquire"
  /\ oc_holder = "direct"
  /\ oc_end' = "lock_timeout"
  /\ oc_exit_code' = 1
  /\ oc_pc' = "done"
  /\ UNCHANGED <<ocArgs, oc_holder, oc_injected, oc_direct>>
  /\ UNCHANGED notOc

\* Inside the try block, before the prompt is sent: no session, no pane or
\* no backend return exit_code 1; an exception leaves _handle_task and run()
\* stores exit_code 1.
oc_fails_before_send(why) ==
  /\ oc_pc = "load"
  /\ why \in {"no_session", "no_pane", "no_backend", "exception"}
  /\ oc_end' = why
  /\ oc_exit_code' = 1
  /\ oc_pc' = "finally"
  /\ UNCHANGED <<ocArgs, oc_holder, oc_injected, oc_direct>>
  /\ UNCHANGED notOc

\* backend.send_text(pane_id, prompt); the wait loop begins.
oc_send ==
  /\ oc_pc = "load"
  /\ oc_injected' = oc_injected + 1
  /\ oc_pc' = "loop"
  /\ UNCHANGED <<ocArgs, oc_holder, oc_end, oc_exit_code, oc_direct>>
  /\ UNCHANGED notOc

\* The loop ends: done line seen (0), deadline (2), pane died or request
\* cancelled (1), or an exception (1 by run()).
oc_loop_ends(why) ==
  /\ oc_pc = "loop"
  /\ why \in {"done_seen", "deadline", "pane_died", "cancelled", "exception"}
  /\ oc_end' = why
  /\ oc_exit_code' = CASE why = "done_seen" -> 0
                      [] why = "deadline" -> 2
                      [] OTHER -> 1
  /\ oc_pc' = "finally"
  /\ UNCHANGED <<ocArgs, oc_holder, oc_injected, oc_direct>>
  /\ UNCHANGED notOc

\* finally: lock.release()
oc_finally ==
  /\ oc_pc = "finally"
  /\ oc_holder' = AfterRelease(oc_holder)
  /\ oc_pc' = "done"
  /\ UNCHANGED <<ocArgs, oc_injected, oc_end, oc_exit_code, oc_direct>>
  /\ UNCHANGED notOc

(***************************************************************************)
(* The autoloop supervisor (claude_skills/tr/scripts/autoloop.py): the     *)
(* caller writes state.json, the supervisor writes autoloop_state.json and *)
(* injects /clear and /tr into the caller's pane.  One process at a time   *)
(* holds autoloop.lock: the daemon or one --once evaluation.               *)
(***************************************************************************)
MaxAlClock == 16
MaxWrites == 2
MaxCursor == 2
CooldownS == 6
Threshold == 70
SleepBeforeTrigger == 5
SleepAfterClear == 2
NoCursor == 0
Missing == -1
NoMtime == 0
NeverTr == -1

StepCursors == 1..MaxCursor
StepsShapes == {"notalist", "todo", "alldone"}
Usages == {Threshold, Threshold + 1}

\* _has_remaining_work: no work at the cursor "none"; work when steps is
\* not a list; otherwise work iff some step or substep is todo or doing.
has_remaining_work(cursor, steps) ==
  IF cursor = NoCursor THEN FALSE
  ELSE IF steps = "notalist" THEN TRUE
  ELSE steps = "todo"

\* _run_once_locked: now - last_ts < cooldown_s.
InCooldown(t, last_ts) == t - last_ts < CooldownS

\* _run_once_locked: should_trigger.
TriggerOnAnyCursor(last_cursor, cursor, trigger_on_missing_state) ==
  IF last_cursor = Missing THEN trigger_on_missing_state ELSE TRUE
should_trigger(last_cursor, cursor, trigger_on_missing_state) ==
  IF last_cursor = Missing THEN trigger_on_missing_state
  ELSE cursor # last_cursor

\* do_clear = usage > threshold
ClearAtThreshold(usage) == usage >= Threshold
do_clear(usage) == usage > Threshold

\* main: --once passes trigger_on_missing_state=True, the daemon False.
trigger_on_missing_state == al_mode = "once"

\* Where the process is after an evaluation or a trigger has returned.
AfterEval == IF al_mode = "daemon" THEN "poll" ELSE "off"

AlIdle ==
  /\ al_pc = "off" /\ al_mode = "none" /\ al_clock = 0 /\ al_pane = TRUE
  /\ st_exists = FALSE /\ st_cursor = NoCursor /\ st_steps = "alldone"
  /\ st_mtime = NoMtime
  /\ sv_last_cursor = Missing /\ sv_task_complete = FALSE /\ sv_last_ts = 0
  /\ al_last_mtime = NoMtime /\ al_cursor = NoCursor /\ al_usage = Threshold
  /\ al_events = <<>> /\ al_last_tr = NeverTr /\ al_tr_cursor = Missing

\* No state.json and no autoloop_state.json yet, nothing running; the pane
\* id file is there or not.
AlInit ==
  /\ al_pc = "off" /\ al_mode = "none" /\ al_clock = 0 /\ al_pane \in BOOLEAN
  /\ st_exists = FALSE /\ st_cursor = NoCursor /\ st_steps = "alldone"
  /\ st_mtime = NoMtime
  /\ sv_last_cursor = Missing /\ sv_task_complete = FALSE /\ sv_last_ts = 0
  /\ al_last_mtime = NoMtime /\ al_cursor = NoCursor /\ al_usage = Threshold
  /\ al_events = <<>> /\ al_last_tr = NeverTr /\ al_tr_cursor = Missing

stVars == <<st_exists, st_cursor, st_steps, st_mtime>>
svVars == <<sv_last_cursor, sv_task_complete, sv_last_ts>>
trVars == <<al_cursor, al_usage, al_events, al_last_tr, al_tr_cursor>>
notAl == <<poolVars, laneVars, taskVars, srvVars, lifeVars, protoVars,
           sessVars, reqVars, keyVars, recvVars, logVars, mailVars, replyVars,
           queueVars, tailVars, paneVars, gemVars, ocVars, drVars>>

\* The caller writes state.json: the cursor stays, advances or becomes
\* "none", and the file gets a new mtime.
st_write(cursor, steps) ==
  /\ st_mtime < MaxWrites
  /\ cursor = NoCursor \/ cursor >= st_cursor
  /\ st_cursor = NoCursor /\ st_exists => cursor = NoCursor
  /\ st_exists' = TRUE
  /\ st_cursor' = cursor
  /\ st_steps' = steps
  /\ st_mtime' = st_mtime + 1
  /\ UNCHANGED <<al_pc, al_mode, al_clock, al_pane, svVars, al_last_mtime,
                 trVars, notAl>>

\* Time passes while no supervisor runs and while the daemon sleeps between
\* two polls; the sleeps of _trigger are counted by its own steps.  No
\* supervisor is started after MaxAlClock.
AlTick ==
  /\ al_pc \in {"off", "poll"}
  /\ al_clock < MaxAlClock
  /\ al_clock' = al_clock + 1
  /\ UNCHANGED <<al_pc, al_mode, al_pane, stVars, svVars, al_last_mtime,
                 trVars, notAl>>

\* run_once: take the lock and evaluate once.
run_once ==
  /\ al_pc = "off"
  /\ al_clock <= MaxAlClock
  /\ al_pc' = "eval"
  /\ al_mode' = "once"
  /\ UNCHANGED <<al_clock, al_pane, stVars, svVars, al_last_mtime, trVars,
                 notAl>>

\* daemon: take the lock; last_mtime = None.
daemon ==
  /\ al_pc = "off"
  /\ al_clock <= MaxAlClock
  /\ al_pc' = "poll"
  /\ al_mode' = "daemon"
  /\ al_last_mtime' = NoMtime
  /\ UNCHANGED <<al_clock, al_pane, stVars, svVars, trVars, notAl>>

\* The supervisor is stopped while it polls.
daemon_stopped ==
  /\ al_pc = "poll"
  /\ al_pc' = "off"
  /\ UNCHANGED <<al_mode, al_clock, al_pane, stVars, svVars, al_last_mtime,
                 trVars, notAl>>

\* daemon, last_mtime is None: remember the mtime, write the cursor with
\* last_trigger_ts 0 and, when work remains, trigger at once.
daemon_first_observation(usage) ==
  /\ al_pc = "poll"
  /\ st_exists
  /\ al_last_mtime = NoMtime
  /\ al_last_mtime' = st_mtime
  /\ sv_last_cursor' = st_cursor
  /\ sv_task_complete' = FALSE
  /\ sv_last_ts' = 0
  /\ IF has_remaining_work(st_cursor, st_steps)
     THEN /\ al_pc' = "sleep5"
          /\ al_cursor' = st_cursor
          /\ al_usage' = usage
          /\ al_events' = <<>>
     ELSE /\ al_pc' = "poll"
          /\ UNCHANGED <<al_cursor, al_usage, al_events>>
  /\ UNCHANGED <<al_mode, al_clock, al_pane, stVars, al_last_tr, al_tr_cursor,
                 notAl>>

\* daemon: the mtime differs from last_mtime, so evaluate.  (With the same
\* mtime the loop sleeps and polls again: no change of state.)
daemon_sees_change ==
  /\ al_pc = "poll"
  /\ st_exists
  /\ al_last_mtime # NoMtime
  /\ st_mtime # al_last_mtime
  /\ al_last_mtime' = st_mtime
  /\ al_pc' = "eval"
  /\ UNCHANGED <<al_mode, al_clock, al_pane, stVars, svVars, trVars, notAl>>

\* _run_once_locked: no state.json.
ev_no_state ==
  /\ al_pc = "eval"
  /\ ~st_exists
  /\ al_pc' = AfterEval
  /\ UNCHANGED <<al_mode, al_clock, al_pane, stVars, svVars, al_last_mtime,
                 trVars, notAl>>

\* _run_once_locked: no pane id.
ev_no_pane ==
  /\ al_pc = "eval"
  /\ st_exists
  /\ ~al_pane
  /\ al_pc' = AfterEval
  /\ UNCHANGED <<al_mode, al_clock, al_pane, stVars, svVars, al_last_mtime,
                 trVars, notAl>>

\* _run_once_locked: the cursor is "none" or no work remains.
ev_task_complete ==
  /\ al_pc = "eval"
  /\ st_exists
  /\ al_pane
  /\ ~has_remaining_work(st_cursor, st_steps)
  /\ sv_last_cursor' = st_cursor
  /\ sv_task_complete' = TRUE
  /\ UNCHANGED sv_last_ts
  /\ al_pc' = AfterEval
  /\ UNCHANGED <<al_mode, al_clock, al_pane, stVars, al_last_mtime, trVars,
                 notAl>>

\* _run_once_locked: inside the cooldown; nothing is written.
ev_cooldown ==
  /\ al_pc = "eval"
  /\ st_exists
  /\ al_pane
  /\ has_remaining_work(st_cursor, st_steps)
  /\ InCooldown(al_clock, sv_last_ts)
  /\ al_pc' = AfterEval
  /\ UNCHANGED <<al_mode, al_clock, al_pane, stVars, svVars, al_last_mtime,
                 trVars, notAl>>

\* _run_once_locked: not should_trigger.
ev_cursor_unchanged ==
  /\ al_pc = "eval"
  /\ st_exists
  /\ al_pane
  /\ has_remaining_work(st_cursor, st_steps)
  /\ ~InCooldown(al_clock, sv_last_ts)
  /\ ~should_trigger(sv_last_cursor, st_cursor, trigger_on_missing_state)
  /\ sv_last_cursor' = st_cursor
  /\ sv_task_complete' = FALSE
  /\ UNCHANGED sv_last_ts
  /\ al_pc' = AfterEval
  /\ UNCHANGED <<al_mode, al_clock, al_pane, stVars, al_last_mtime, trVars,
                 notAl>>

\* _run_once_locked: should_trigger; read the usage and enter _trigger.
ev_trigger(usage) ==
  /\ al_pc = "eval"
  /\ st_exists
  /\ al_pane
  /\ has_remaining_work(st_cursor, st_steps)
  /\ ~InCooldown(al_clock, sv_last_ts)
  /\ should_trigger(sv_last_cursor, st_cursor, trigger_on_missing_state)
  /\ al_pc' = "sleep5"
  /\ al_cursor' = st_cursor
  /\ al_usage' = usage
  /\ al_events' = <<>>
  /\ UNCHANGED <<al_mode, al_clock, al_pane, stVars, svVars, al_last_mtime,
                 al_last_tr, al_tr_cursor, notAl>>

\* _trigger: time.sleep(5)
tg_sleep5 ==
  /\ al_pc = "sleep5"
  /\ al_clock' = al_clock + SleepBeforeTrigger
  /\ al_events' = Append(al_events, "sleep5")
  /\ al_pc' = IF do_clear(al_usage) THEN "clear" ELSE "tr"
  /\ UNCHANGED <<al_mode, al_pane, stVars, svVars, al_last_mtime, al_cursor,
                 al_usage, al_last_tr, al_tr_cursor, notAl>>

\* _trigger: _lask("/clear"); a non-zero exit of ask raises RuntimeError,
\* which nothing catches: the process ends.
tg_clear(ok) ==
  /\ al_pc = "clear"
  /\ IF ok
     THEN /\ al_events' = Append(al_events, "clear")
          /\ al_pc' = "sleep2"
     ELSE /\ al_pc' = "off"
          /\ UNCHANGED al_events
  /\ UNCHANGED <<al_mode, al_clock, al_pane, stVars, svVars, al_last_mtime,
                 al_cursor, al_usage, al_last_tr, al_tr_cursor, notAl>>

\* _trigger: time.sleep(2)
tg_sleep2 ==
  /\ al_pc = "sleep2"
  /\ al_clock' = al_clock + SleepAfterClear
  /\ al_events' = Append(al_events, "sleep2")
  /\ al_pc' = "tr"
  /\ UNCHANGED <<al_mode, al_pane, stVars, svVars, al_last_mtime, al_cursor,
                 al_usage, al_last_tr, al_tr_cursor, notAl>>

\* _trigger: _lask("/tr")
tg_tr(ok) ==
  /\ al_pc = "tr"
  /\ IF ok
     THEN /\ al_events' = Append(al_events, "tr")
          /\ al_last_tr' = al_clock
          /\ al_tr_cursor' = al_cursor
          /\ al_pc' = "write"
     ELSE /\ al_pc' = "off"
          /\ UNCHANGED <<al_events, al_last_tr, al_tr_cursor>>
  /\ UNCHANGED <<al_mode, al_clock, al_pane, stVars, svVars, al_last_mtime,
                 al_cursor, al_usage, notAl>>

\* After _trigger: autoloop_state.json gets the cursor and the time.
tg_write ==
  /\ al_pc = "write"
  /\ sv_last_cursor' = al_cursor
  /\ sv_task_complete' = FALSE
  /\ sv_last_ts' = al_clock
  /\ al_events' = Append(al_events, "write")
  /\ al_pc' = AfterEval
  /\ UNCHANGED <<al_mode, al_clock, al_pane, stVars, al_last_mtime, al_cursor,
                 al_usage, al_last_tr, al_tr_cursor, notAl>>

(***************************************************************************)
(* The Droid JSONL tailer (droid_comm.py, DroidLogReader): capture_state   *)
(* and one pass of _read_since with _read_new_messages, over session files *)
(* that Droid appends to in chunks of any size, truncates or replaces.     *)
(***************************************************************************)
MaxFileLen == 3
MaxAppend == 2
NoSessionPath == 0
SessionPaths == 1..2
Appendable == {c \in UNION {[1..n -> Bytes] : n \in 1..MaxAppend} : TRUE}

\* buf.split(b"\n"): the pieces between the newlines, one more than there
\* are newlines.
RECURSIVE split(_)
split(buf) ==
  IF \A i \in 1..Len(buf) : buf[i] # "nl" THEN <<buf>>
  ELSE LET k == CHOOSE i \in 1..Len(buf) :
                  buf[i] = "nl" /\ \A j \in 1..(i - 1) : buf[j] # "nl"
       IN <<SubSeq(buf, 1, k - 1)>> \o split(SubSeq(buf, k + 1, Len(buf)))

EndsWithNewline(buf) == buf # <<>> /\ buf[Len(buf)] = "nl"

\* _read_new_messages: `if buf and not buf.endswith(b"\n"): carry =
\* lines.pop() else: carry = b""`.
carry_dropped(buf) == <<>>
carry_of(buf) ==
  IF buf # <<>> /\ ~EndsWithNewline(buf)
  THEN split(buf)[Len(split(buf))]
  ELSE <<>>
lines_of(buf) ==
  IF buf # <<>> /\ ~EndsWithNewline(buf)
  THEN SubSeq(split(buf), 1, Len(split(buf)) - 1)
  ELSE split(buf)

\* The loop over lines: empty lines are skipped, the others go to json.loads.
NotEmptyLine(line) == line # <<>>
parsed_of(lines) == SelectSeq(lines, NotEmptyLine)

DrIdle ==
  /\ dr_files = [f \in SessionPaths |-> <<>>]
  /\ dr_latest = NoSessionPath /\ dr_captured = FALSE
  /\ dr_path = NoSessionPath /\ dr_offset = 0 /\ dr_carry = <<>>
  /\ dr_cap = 0 /\ dr_shrunk = FALSE /\ dr_parsed = <<>> /\ dr_joined = FALSE

notDr == <<poolVars, laneVars, taskVars, srvVars, lifeVars, protoVars,
           sessVars, reqVars, keyVars, recvVars, logVars, mailVars, replyVars,
           queueVars, tailVars, paneVars, gemVars, ocVars, alVars>>
readerVars == <<dr_captured, dr_path, dr_offset, dr_carry, dr_cap, dr_parsed,
                dr_joined>>

\* Droid appends a chunk of bytes to a session file.
fw_append(f, chunk) ==
  /\ Len(dr_files[f]) + Len(chunk) <= MaxFileLen
  /\ dr_files' = [dr_files EXCEPT ![f] = @ \o chunk]
  /\ UNCHANGED <<dr_latest, dr_shrunk, readerVars, notDr>>

\* A session file is cut back to n bytes; bytes the tailer has read are lost
\* when n is below its offset.
fw_truncate(f, n) ==
  /\ n < Len(dr_files[f])
  /\ dr_files' = [dr_files EXCEPT ![f] = SubSeq(@, 1, n)]
  /\ dr_shrunk' = (dr_shrunk \/ (f = dr_path /\ n < dr_offset))
  /\ UNCHANGED <<dr_latest, readerVars, notDr>>

\* Another session file becomes the one _latest_session finds.
latest_changes(f) ==
  /\ f # dr_latest
  /\ dr_latest' = f
  /\ UNCHANGED <<dr_files, dr_shrunk, readerVars, notDr>>

\* capture_state: the size of the latest session file, or 0 when there is
\* none or stat raises OSError.
capture_state(stat_ok) ==
  /\ ~dr_captured
  /\ dr_captured' = TRUE
  /\ dr_path' = dr_latest
  /\ dr_offset' = IF dr_latest # NoSessionPath /\ stat_ok
                  THEN Len(dr_files[dr_latest]) ELSE 0
  /\ dr_carry' = <<>>
  /\ dr_cap' = dr_offset'
  /\ dr_parsed' = <<>>
  /\ dr_shrunk' = FALSE
  /\ UNCHANGED <<dr_files, dr_latest, dr_joined, notDr>>

\* One pass of the loop of _read_since: bind the latest session file if it
\* is another one, then _read_new_messages.
read_since(io_ok) ==
  /\ dr_captured
  /\ dr_latest # NoSessionPath
  /\ LET rebind == dr_path # dr_latest
         file == dr_files[dr_latest]
         offset0 == IF rebind THEN 0 ELSE dr_offset
         carry0 == IF rebind THEN <<>> ELSE dr_carry
         shrunk == Len(file) < offset0
         offset == IF shrunk THEN 0 ELSE offset0
         carry == IF shrunk THEN <<>> ELSE carry0
         data == SubSeq(file, offset + 1, Len(file))
         buf == carry \o data
         restart == rebind \/ shrunk
     IN /\ dr_path' = dr_latest
        /\ IF io_ok
           THEN /\ dr_offset' = offset + Len(data)
                /\ dr_carry' = carry_of(buf)
                /\ dr_cap' = IF restart THEN 0 ELSE dr_cap
                /\ dr_shrunk' = IF restart THEN FALSE ELSE dr_shrunk
                /\ dr_parsed' = (IF restart THEN <<>> ELSE dr_parsed)
                                  \o parsed_of(lines_of(buf))
                /\ dr_joined' = (dr_joined \/
                                   (carry # <<>> /\ Len(split(buf)) > 1))
           ELSE /\ dr_offset' = offset0
                /\ dr_carry' = carry0
                /\ dr_cap' = IF rebind THEN 0 ELSE dr_cap
                /\ dr_shrunk' = IF rebind THEN FALSE ELSE dr_shrunk
                /\ dr_parsed' = IF rebind THEN <<>> ELSE dr_parsed
                /\ UNCHANGED dr_joined
  /\ UNCHANGED <<dr_files, dr_latest, dr_captured, notDr>>

Init == PoolInit /\ LaneIdle /\ TaskInit /\ SrvIdle /\ LifeIdle
      /\ ProtoIdle /\ SessIdle /\ ReqInit /\ KeyIdle /\ RecvIdle
      /\ LogIdle /\ MailIdle /\ ReplyIdle /\ QueueIdle /\ TailIdle
      /\ PaneIdle /\ GemIdle /\ OcIdle /\ AlIdle /\ DrIdle

Next ==
  \/ \E t \in Tasks : submit(t)
  \/ \E t \in Tasks : goc_lock(t)
  \/ \E t \in Tasks : goc_create(t)
  \/ \E t \in Tasks : goc_start(t)
  \/ \E t \in Tasks : enqueue(t)
  \/ \E w \in Tasks : run_get(w)
  \/ \E w \in Tasks : handle_return(w)
  \/ \E w \in Tasks : handle_raise(w)
  \/ \E w \in Tasks : except_return(w)
  \/ \E w \in Tasks : except_raise(w)
  \/ \E w \in Tasks : finally_set(w)
  \/ \E w \in Tasks : finally_raising(w)

Spec == Init /\ [][Next]_vars

InitCaskd == PoolInit /\ LaneInit /\ TaskInit /\ SrvIdle /\ LifeIdle
      /\ ProtoIdle /\ SessIdle /\ ReqInit /\ KeyIdle /\ RecvIdle
      /\ LogIdle /\ MailIdle /\ ReplyIdle /\ QueueIdle /\ TailIdle
      /\ PaneIdle /\ GemIdle /\ OcIdle /\ AlIdle /\ DrIdle

NextCaskd ==
  \/ \E r \in SessionRecords : k_rewrite(r)
  \/ \E p \in Panes : k_pane_dies(p)
  \/ \E t \in Tasks : k_submit(t)
  \/ \E t \in Tasks : k_enqueue(t)
  \/ \E k \in LaneKeys : k_get(k)
  \/ \E k \in LaneKeys : k_prepare(k)
  \/ \E k \in LaneKeys : k_capture(k)
  \/ \E k \in LaneKeys : k_send(k)
  \/ \E k \in LaneKeys : k_send_raises(k)
  \/ \E k \in LaneKeys : k_loop_ends(k)
  \/ \E k \in LaneKeys : k_pane_died(k)
  \/ \E k \in LaneKeys : k_finally(k)

SpecCaskd == InitCaskd /\ [][NextCaskd]_vars

InitTask == PoolInit /\ LaneIdle /\ TaskInit /\ SrvIdle /\ LifeIdle
      /\ ProtoIdle /\ SessIdle /\ ReqInit /\ KeyIdle /\ RecvIdle
      /\ LogIdle /\ MailIdle /\ ReplyIdle /\ QueueIdle /\ TailIdle
      /\ PaneIdle /\ GemIdle /\ OcIdle /\ AlIdle /\ DrIdle

NextTask ==
  \/ \E t_s \in TimeoutValues : h_submit(t_s)
  \/ h_wait_signalled
  \/ h_wait_expires
  \/ h_respond
  \/ w_get
  \/ \E why \in {"nosession", "nopane"} : w_unavailable(why)
  \/ w_capture
  \/ w_send
  \/ w_raises
  \/ w_deadline
  \/ \E why \in {"panedied", "interrupted"} : w_probe_fails(why)
  \/ w_probe_ok
  \/ w_event_user
  \/ \E text \in Lines : w_event_assistant(text)
  \/ w_return
  \/ w_finally
  \/ Tick

SpecTask == InitTask /\ [][NextTask]_vars

\* The same request, its timeout_s drawn from the negative numbers as well.
NextTaskAny ==
  \/ NextTask
  \/ \E t_s \in NegativeTimeouts : h_submit(t_s)

SpecTaskAny == InitTask /\ [][NextTaskAny]_vars

InitServer == PoolInit /\ LaneIdle /\ TaskInit /\ SrvInit /\ LifeIdle
      /\ ProtoIdle /\ SessIdle /\ ReqInit /\ KeyIdle /\ RecvIdle
      /\ LogIdle /\ MailIdle /\ ReplyIdle /\ QueueIdle /\ TailIdle
      /\ PaneIdle /\ GemIdle /\ OcIdle /\ AlIdle /\ DrIdle

NextServer ==
  \/ \E d \in Daemons : d_try_acquire(d)
  \/ \E d \in Daemons : d_bind(d)
  \/ \E d \in Daemons : d_start_parent_monitor(d)
  \/ \E d \in Daemons : d_parent_monitor_unbound(d)
  \/ \E d \in Daemons : d_write_state(d)
  \/ parent_exits
  \/ \E d \in Daemons : parent_monitor(d)
  \/ \E d \in Daemons : d_on_stop(d)
  \/ \E d \in Daemons : d_release(d)
  \/ \E c \in Conns, d \in Daemons, f \in Frames : c_connect(c, d, f)
  \/ \E c \in Conns : c_malformed(c)
  \/ \E c \in Conns : c_unauthorized(c)
  \/ \E c \in Conns : c_ping(c)
  \/ \E c \in Conns : c_shutdown(c)
  \/ \E c \in Conns : c_invalid(c)
  \/ \E c \in Conns, outcome \in HandlerOutcomes : c_request(c, outcome)

SpecServer == InitServer /\ [][NextServer]_vars

InitLife == PoolInit /\ LaneIdle /\ TaskInit /\ SrvIdle /\ LifeInit
      /\ ProtoIdle /\ SessIdle /\ ReqInit /\ KeyIdle /\ RecvIdle
      /\ LogIdle /\ MailIdle /\ ReplyIdle /\ QueueIdle /\ TailIdle
      /\ PaneIdle /\ GemIdle /\ OcIdle /\ AlIdle /\ DrIdle

NextLife ==
  \/ m_try_acquire
  \/ m_bind
  \/ m_start_parent_monitor
  \/ m_parent_monitor_unbound
  \/ m_write_state
  \/ m_loop_exit
  \/ m_finally
  \/ m_server_close
  \/ m_return
  \/ i_read
  \/ i_decide
  \/ p_parent_exits
  \/ p_look
  \/ \E c \in Conns, kind \in {"shutdown", "bounded", "unbounded"} :
       h_accept(c, kind)
  \/ \E c \in Conns : h_shutdown_reply(c)
  \/ \E c \in Conns : h_shutdown_start(c)
  \/ \E c \in Conns : h_task_done(c)
  \/ \E c \in Conns : h_wait_out(c)
  \/ \E c \in Conns : h_finish(c)
  \/ foreign_write
  \/ LifeTick

SpecLife == InitLife /\ [][NextLife]_vars

\* The steps of each thread.
MainThread ==
  \/ m_try_acquire
  \/ m_bind
  \/ m_start_parent_monitor
  \/ m_parent_monitor_unbound
  \/ m_write_state
  \/ m_loop_exit
  \/ m_finally
  \/ m_server_close
  \/ m_return

MonitorThreads == i_read \/ i_decide \/ p_look

HandlerThread(c) ==
  h_shutdown_reply(c) \/ h_shutdown_start(c) \/ h_wait_out(c) \/ h_finish(c)

\* Every thread of the daemon that can take a step takes it, and time
\* passes.  Nothing obliges a client to connect, a provider to finish a
\* task, the parent to exit or another process to write the state file.
LifeFairness ==
  /\ WF_vars(MainThread)
  /\ WF_vars(MonitorThreads)
  /\ \A c \in Conns : WF_vars(HandlerThread(c))
  /\ WF_vars(LifeTick)

\* AskDaemonServer alone, with fairness.
InitLifeAskd == InitLife /\ variant = "askd"

SpecLifeFair == InitLifeAskd /\ [][NextLife]_vars /\ LifeFairness

InitProtocol ==
  /\ PoolInit /\ LaneIdle /\ TaskInit /\ SrvIdle /\ LifeIdle
      /\ SessIdle /\ ReqInit /\ KeyIdle /\ RecvIdle /\ LogIdle
      /\ MailIdle /\ ReplyIdle /\ QueueIdle /\ TailIdle /\ PaneIdle
      /\ GemIdle /\ OcIdle /\ AlIdle /\ DrIdle
  /\ ProtoInit

NextProtocol ==
  \/ call_is_done_text
  \/ call_strip_done_text
  \/ call_wrap_codex_prompt

SpecProtocol == InitProtocol /\ [][NextProtocol]_vars

InitSession ==
  /\ PoolInit /\ TaskInit /\ SrvIdle /\ LifeIdle /\ ProtoIdle
      /\ ReqInit /\ KeyIdle /\ RecvIdle /\ LogIdle /\ MailIdle
      /\ ReplyIdle /\ QueueIdle /\ TailIdle /\ PaneIdle /\ GemIdle
      /\ OcIdle /\ AlIdle /\ DrIdle
  /\ SessInit

NextSession ==
  \/ \E r \in FlaggedRecords : g_rewrite(r)
  \/ \E pn \in Panes : g_pane_dies(pn)
  \/ g_load
  \/ g_ensure_pane
  \/ g_send
  \/ \E e \in {0, 1, 2} : g_result(e)

SpecSession == InitSession /\ [][NextSession]_vars

InitReqId ==
  /\ PoolInit /\ LaneIdle /\ TaskInit /\ SrvIdle /\ LifeIdle
      /\ ProtoIdle /\ SessIdle /\ KeyIdle /\ RecvIdle /\ LogIdle
      /\ MailIdle /\ ReplyIdle /\ QueueIdle /\ TailIdle /\ PaneIdle
      /\ GemIdle /\ OcIdle /\ AlIdle /\ DrIdle
  /\ ReqInit

NextReqId == \E supplied \in SuppliedReqIds : q_submit(supplied)

SpecReqId == InitReqId /\ [][NextReqId]_vars

InitKey ==
  /\ PoolInit /\ TaskInit /\ SrvIdle /\ LifeIdle /\ ProtoIdle
      /\ SessIdle /\ ReqInit /\ RecvIdle /\ LogIdle /\ MailIdle
      /\ ReplyIdle /\ QueueIdle /\ TailIdle /\ PaneIdle /\ GemIdle
      /\ OcIdle /\ AlIdle /\ DrIdle
  /\ KeyInit

NextKey ==
  \/ s_submit
  \/ s_ensure_pane
  \/ \E id \in Identifiers : \E v \in IdValues(id) : s_rotate(id, v)

SpecKey == InitKey /\ [][NextKey]_vars

InitRecv ==
  /\ PoolInit /\ LaneIdle /\ TaskInit /\ SrvIdle /\ LifeIdle
      /\ ProtoIdle /\ SessIdle /\ LogIdle /\ MailIdle /\ ReplyIdle
      /\ QueueIdle /\ TailIdle /\ PaneIdle /\ GemIdle /\ OcIdle
      /\ AlIdle /\ DrIdle
  /\ ReqInit /\ KeyIdle
  /\ RecvInit

NextRecv ==
  \/ rv_return_line
  \/ rv_raise_timeout
  \/ rv_settimeout
  \/ \E chunk \in Chunks(MaxBufsize) : rv_recv_chunk(chunk)
  \/ rv_recv_closed
  \/ rv_recv_timeout
  \/ RecvTick

SpecRecv == InitRecv /\ [][NextRecv]_vars

\* The worker thread runs: its queue.get(timeout=0.2) takes a task that is
\* in the queue.
SpecTaskFair == InitTask /\ [][NextTask]_vars /\ WF_vars(w_get)

InitMail ==
  /\ PoolInit /\ LaneIdle /\ TaskInit /\ SrvIdle /\ LifeIdle
      /\ ProtoIdle /\ SessIdle /\ ReplyIdle /\ QueueIdle /\ TailIdle
      /\ PaneIdle /\ GemIdle /\ OcIdle /\ AlIdle /\ DrIdle
  /\ ReqInit /\ KeyIdle /\ RecvIdle /\ LogIdle
  /\ MailInit

NextMail ==
  \/ \E m \in MailProcs : ml_read_state(m)
  \/ \E m \in MailProcs : ml_already_running(m)
  \/ \E m \in MailProcs : ml_not_running(m)
  \/ \E m \in MailProcs : ml_remove_state(m)
  \/ \E m \in MailProcs : ml_write_state(m)
  \/ \E m \in MailProcs : ml_write_pid(m)

SpecMail == InitMail /\ [][NextMail]_vars

InitReply ==
  /\ PoolInit /\ LaneIdle /\ TaskInit /\ SrvIdle /\ LifeIdle
      /\ ProtoIdle /\ SessIdle /\ QueueIdle /\ TailIdle /\ PaneIdle
      /\ GemIdle /\ OcIdle /\ AlIdle /\ DrIdle
  /\ ReqInit /\ KeyIdle /\ RecvIdle /\ LogIdle /\ MailIdle
  /\ ReplyInit

NextReply ==
  \/ \E e \in {Entry(r, o, d) : r \in {"user", "assistant"}, o \in {"old", "mine"},
                                d \in BOOLEAN} : x_tui_logs(e)
  \/ x_deadline
  \/ x_event
  \/ x_none
  \/ ReplyTick

SpecReply == InitReply /\ [][NextReply]_vars

InitQueue ==
  /\ PoolInit /\ LaneIdle /\ TaskInit /\ SrvIdle /\ LifeIdle
      /\ ProtoIdle /\ SessIdle /\ TailIdle /\ PaneIdle /\ GemIdle
      /\ OcIdle /\ AlIdle /\ DrIdle
  /\ ReqInit /\ KeyIdle /\ RecvIdle /\ LogIdle /\ MailIdle /\ ReplyIdle
  /\ QueueIdle

NextQueue ==
  \/ \E t \in QueuedTasks, t_s \in QueueTimeouts : qt_submit(t, t_s)
  \/ \E t \in QueuedTasks : qt_wait_signalled(t)
  \/ \E t \in QueuedTasks : qt_wait_expires(t)
  \/ qt_get
  \/ qt_send
  \/ qt_return
  \/ QueueTick

SpecQueue == InitQueue /\ [][NextQueue]_vars

InitTail ==
  /\ PoolInit /\ LaneIdle /\ TaskInit /\ SrvIdle /\ LifeIdle
      /\ ProtoIdle /\ SessIdle /\ PaneIdle /\ GemIdle /\ OcIdle
      /\ AlIdle /\ DrIdle
  /\ ReqInit /\ KeyIdle /\ RecvIdle /\ LogIdle /\ MailIdle /\ ReplyIdle /\ QueueIdle
  /\ TailInit

NextTail ==
  \/ tl_read_env
  \/ tl_env_raises
  \/ tl_hatch

SpecTail == InitTail /\ [][NextTail]_vars

InitPane ==
  /\ PoolInit /\ LaneIdle /\ TaskInit /\ SrvIdle /\ LifeIdle
      /\ ProtoIdle /\ SessIdle /\ GemIdle /\ OcIdle /\ AlIdle /\ DrIdle
  /\ ReqInit /\ KeyIdle /\ RecvIdle /\ LogIdle /\ MailIdle /\ ReplyIdle /\ QueueIdle
  /\ TailIdle /\ PaneInit

NextPane ==
  \/ pn_interrupted
  \/ pn_goes_on

SpecPane == InitPane /\ [][NextPane]_vars

InitGemini ==
  /\ PoolInit /\ LaneIdle /\ TaskInit /\ SrvIdle /\ LifeIdle
      /\ ProtoIdle /\ SessIdle /\ OcIdle /\ AlIdle /\ DrIdle
  /\ ReqInit /\ KeyIdle /\ RecvIdle /\ LogIdle /\ MailIdle /\ ReplyIdle /\ QueueIdle
  /\ TailIdle /\ PaneIdle /\ GemInit

NextGemini ==
  \/ \E kind \in {"user", "gemini", "empty", "fill"}, partial \in BOOLEAN :
       gw_begin(kind, partial)
  \/ gw_end
  \/ GemTick
  \/ \E ok \in BOOLEAN : gc_stat(ok)
  \/ \E oserror \in BOOLEAN : gc_read(oserror)
  \/ gr_fast_path
  \/ gr_baseline
  \/ gr_return
  \/ gr_nothing
  \/ gr_deadline

SpecGemini == InitGemini /\ [][NextGemini]_vars

InitOpenCode ==
  /\ PoolInit /\ LaneIdle /\ TaskInit /\ SrvIdle /\ LifeIdle
      /\ ProtoIdle /\ SessIdle /\ AlIdle /\ DrIdle
  /\ ReqInit /\ KeyIdle /\ RecvIdle /\ LogIdle /\ MailIdle /\ ReplyIdle /\ QueueIdle
  /\ TailIdle /\ PaneIdle /\ GemIdle /\ OcInit

NextOpenCode ==
  \/ od_acquire
  \/ od_send
  \/ od_release
  \/ oc_acquire
  \/ oc_lock_timeout_expires
  \/ \E why \in {"no_session", "no_pane", "no_backend", "exception"} :
       oc_fails_before_send(why)
  \/ oc_send
  \/ \E why \in {"done_seen", "deadline", "pane_died", "cancelled", "exception"} :
       oc_loop_ends(why)
  \/ oc_finally

SpecOpenCode == InitOpenCode /\ [][NextOpenCode]_vars

InitAutoloop ==
  /\ PoolInit /\ LaneIdle /\ TaskInit /\ SrvIdle /\ LifeIdle
      /\ ProtoIdle /\ SessIdle /\ DrIdle
  /\ ReqInit /\ KeyIdle /\ RecvIdle /\ LogIdle /\ MailIdle /\ ReplyIdle /\ QueueIdle
  /\ TailIdle /\ PaneIdle /\ GemIdle /\ OcIdle /\ AlInit

NextAutoloop ==
  \/ \E cursor \in {NoCursor} \cup StepCursors, steps \in StepsShapes :
       st_write(cursor, steps)
  \/ AlTick
  \/ run_once
  \/ daemon
  \/ daemon_stopped
  \/ \E usage \in Usages : daemon_first_observation(usage)
  \/ daemon_sees_change
  \/ ev_no_state
  \/ ev_no_pane
  \/ ev_task_complete
  \/ ev_cooldown
  \/ ev_cursor_unchanged
  \/ \E usage \in Usages : ev_trigger(usage)
  \/ tg_sleep5
  \/ \E ok \in BOOLEAN : tg_clear(ok)
  \/ tg_sleep2
  \/ \E ok \in BOOLEAN : tg_tr(ok)
  \/ tg_write

SpecAutoloop == InitAutoloop /\ [][NextAutoloop]_vars

\* The daemon alone, with a pane id, an `ask` that succeeds and nobody
\* stopping it.  The loop of daemon() runs for ever with a sleep of poll_s
\* between two iterations, so each of its steps is taken when it stays
\* possible; time goes on.
InitAutoloopFair ==
  /\ PoolInit /\ LaneIdle /\ TaskInit /\ SrvIdle /\ LifeIdle
      /\ ProtoIdle /\ SessIdle /\ DrIdle
  /\ ReqInit /\ KeyIdle /\ RecvIdle /\ LogIdle /\ MailIdle /\ ReplyIdle /\ QueueIdle
  /\ TailIdle /\ PaneIdle /\ GemIdle /\ OcIdle /\ AlIdle

DaemonStep ==
  \/ daemon
  \/ \E usage \in Usages : daemon_first_observation(usage)
  \/ daemon_sees_change
  \/ ev_task_complete
  \/ ev_cooldown
  \/ ev_cursor_unchanged
  \/ \E usage \in Usages : ev_trigger(usage)
  \/ tg_sleep5
  \/ tg_clear(TRUE)
  \/ tg_sleep2
  \/ tg_tr(TRUE)
  \/ tg_write

NextAutoloopFair ==
  \/ \E cursor \in {NoCursor} \cup StepCursors, steps \in StepsShapes :
       st_write(cursor, steps)
  \/ AlTick
  \/ DaemonStep

SpecAutoloopFair ==
  /\ InitAutoloopFair
  /\ [][NextAutoloopFair]_vars
  /\ WF_vars(DaemonStep)
  /\ WF_vars(AlTick)

InitDroid ==
  /\ PoolInit /\ LaneIdle /\ TaskInit /\ SrvIdle /\ LifeIdle /\ ProtoIdle /\ SessIdle
  /\ ReqInit /\ KeyIdle /\ RecvIdle /\ LogIdle /\ MailIdle /\ ReplyIdle /\ QueueIdle
  /\ TailIdle /\ PaneIdle /\ GemIdle /\ OcIdle /\ AlIdle /\ DrIdle

NextDroid ==
  \/ \E f \in SessionPaths, chunk \in Appendable : fw_append(f, chunk)
  \/ \E f \in SessionPaths, n \in 0..(MaxFileLen - 1) : fw_truncate(f, n)
  \/ \E f \in SessionPaths : latest_changes(f)
  \/ \E stat_ok \in BOOLEAN : capture_state(stat_ok)
  \/ \E io_ok \in BOOLEAN : read_since(io_ok)

SpecDroid == InitDroid /\ [][NextDroid]_vars

(***************************************************************************)
(* Properties of the unified daemon's pool (Spec).                         *)
(***************************************************************************)
Range(f) == {f[i] : i \in DOMAIN f}

\* Position of task t in the order of the Queue.put calls (0: not yet put).
EnqPos(t) ==
  IF t \in Range(enqOrder)
    THEN CHOOSE i \in DOMAIN enqOrder : enqOrder[i] = t
    ELSE 0

\* t sits in some worker's queue.
Queued(t) == \E w \in Tasks : t \in Range(wk[w].q)

\* t has been dequeued and its done_event is not yet signalled.
Handling(t) ==
  \E w \in Tasks :
    /\ wk[w].cur = t
    /\ wk[w].phase \in {"handling", "except", "finally", "finally_raising"}

\* A worker has taken t from its queue at some point.
Dequeued(t) == EnqPos(t) > 0 /\ ~Queued(t)

\* The worker is through with t: dequeued, and no longer being handled.
Ended(t) == Dequeued(t) /\ ~Handling(t)

SameLane(t, u) == tprov[t] = tprov[u] /\ tkey[t] = tkey[u]

\* C1: for every session key at most one task of that key is being handled at
\* any moment (between the dequeue and done_event.set()), and no two worker
\* objects exist for the same session key of one pool.
C1_OneInFlightPerKey ==
  /\ \A t, u \in Tasks :
       (t # u /\ Handling(t) /\ Handling(u)) => ~SameLane(t, u)
  /\ \A v, w \in Tasks :
       (v # w /\ wk[v].exists /\ wk[w].exists)
         => ~(wk[v].pool = wk[w].pool /\ wk[v].key = wk[w].key)

\* Two tasks of one session key were submitted; one is in flight, the other
\* is held back in the same worker's queue.
C1_Witness ==
  \E t, u \in Tasks, w \in Tasks :
    /\ t # u /\ SameLane(t, u)
    /\ wk[w].cur = t /\ wk[w].phase = "handling"
    /\ u \in Range(wk[w].q)

\* C3: tasks put on the same session key are handled in the order of their
\* enqueue: once the later one has been dequeued, the earlier one has its
\* result set and its done_event signalled.
C3_FifoPerKey ==
  \A a, b \in Tasks :
    (/\ EnqPos(a) > 0 /\ EnqPos(a) < EnqPos(b)
     /\ SameLane(a, b)
     /\ Dequeued(b))
      => (tresult[a] # "none" /\ tdone[a])

\* The second task of a key is being handled after the first one completed.
C3_Witness ==
  \E a, b \in Tasks :
    /\ EnqPos(a) > 0 /\ EnqPos(a) < EnqPos(b)
    /\ SameLane(a, b)
    /\ Handling(b)
    /\ tresult[a] # "none" /\ tdone[a]

\* C5: every task a worker has dequeued and is through with, whether the
\* handler returned or raised and even when the exception handler failed too,
\* has a result and a signalled done_event, and its worker thread is alive.
C5_ResultOnEveryPath ==
  \A t \in Tasks :
    Ended(t) =>
      /\ tresult[t] # "none"
      /\ tdone[t]
      /\ wk[tworker[t]].alive

\* C6: a task waits only behind tasks of its own provider and session key:
\* whatever is in flight on its worker, or ahead of it in that worker's
\* queue, has the same provider and the same session key.
C6_WaitsOnlyInOwnLane ==
  \A w \in Tasks :
    \A i \in DOMAIN wk[w].q :
      /\ (wk[w].cur # NoTask) => SameLane(wk[w].q[i], wk[w].cur)
      /\ \A j \in DOMAIN wk[w].q : j < i => SameLane(wk[w].q[i], wk[w].q[j])

\* Two providers yield the same session-key string and both tasks are in
\* flight at once, neither waiting for the other.
C6_Witness ==
  \E t, u \in Tasks :
    /\ tprov[t] # tprov[u] /\ tkey[t] = tkey[u]
    /\ Handling(t) /\ Handling(u)

(***************************************************************************)
(* Properties of the caskd session lanes (SpecCaskd).                      *)
(***************************************************************************)
\* Position of task t in the order of the Queue.put calls (0: not yet put).
KEnqPos(t) ==
  IF t \in Range(kenq) THEN CHOOSE i \in DOMAIN kenq : kenq[i] = t ELSE 0

\* The task's prompt is in a pane and its worker is in the wait loop.
AwaitingReply(k) == kw[k].phase = "loop"

\* C2: at every moment at most one task has an injected prompt awaiting its
\* reply in any given pane, also when the session record is rewritten between
\* two submissions so that they are routed under different session keys.
C2_OnePromptPerPane ==
  \A j, k \in LaneKeys :
    (j # k /\ AwaitingReply(j) /\ AwaitingReply(k)) => kw[j].pane # kw[k].pane

\* C4: for requests A then B on one session key, B's capture_state and B's
\* injection happen only after A's wait has ended and A's result is returned.
C4_CaptureAfterEarlierEnds ==
  \A k \in LaneKeys :
    kw[k].phase \in {"send", "loop"} =>
      \A a \in Tasks :
        (/\ kkey[a] = kkey[kw[k].cur]
         /\ KEnqPos(a) > 0 /\ KEnqPos(a) < KEnqPos(kw[k].cur))
          => kresult[a] # NoResult

\* B has captured its cursor and injected its prompt; A, put earlier on the
\* same key, ended its wait by the done line or by the deadline.
C4_Witness ==
  \E k \in LaneKeys, a \in Tasks :
    /\ kw[k].phase = "loop"
    /\ kkey[a] = kkey[kw[k].cur]
    /\ KEnqPos(a) > 0 /\ KEnqPos(a) < KEnqPos(kw[k].cur)
    /\ kresult[a] \in {0, 2}

(***************************************************************************)
(* Properties of one caskd request in time (SpecTask).                     *)
(***************************************************************************)
\* The collected text ends, blank lines aside, with the done line of id r.
EndsWithDoneOf(text, r) ==
  LET i == LastNonBlank(text)
  IN  i > 0 /\ text[i] = DoneLine(r)

\* The return statements of _handle_task that report an error.
ErrorEnds == {"nosession", "nopane", "raised", "panedied", "interrupted"}

\* Exit code and done_seen of the task's result and of the response agree
\* with how the wait ended.
ExitCodeFollowsOutcome ==
  /\ task_result.set =>
       /\ task_result.exit_code \in {0, 1, 2}
       /\ (task_result.exit_code = 0) <=> task_result.done_seen
       /\ task_result.done_seen <=> EndsWithDoneOf(chunks, req_id)
       /\ task_result.done_seen => now < deadline
       /\ (task_result.exit_code = 2) <=> (wend = "deadline")
       /\ wend = "deadline" => now >= deadline
       /\ (task_result.exit_code = 1) <=> (wend \in ErrorEnds)
       /\ wend \in ErrorEnds => ~task_result.done_seen
  /\ resp.sent =>
       /\ (resp.exit_code = 0) <=> resp.done_seen
       /\ resp.done_seen => EndsWithDoneOf(chunks, req_id)
       /\ resp.exit_code = 2 =>
            \/ task_result.set /\ wend = "deadline"
            \/ ~signalled /\ now >= timeout_s + WaitSlack
       /\ (task_result.set /\ wend = "deadline") => resp.exit_code = 2

\* C7 as stated: exit_code is 0 exactly when the collected text ended with the
\* request's own done line before the deadline, 2 exactly when the deadline
\* passed without it, 1 with done_seen false on every error; and when the text
\* ends with another request's done line the request is not completed and the
\* reply is the collected text, unchanged.
C7_ForeignDoneTextUnchanged ==
  /\ ExitCodeFollowsOutcome
  /\ \A r \in ReqIds \ {req_id} :
       (task_result.set /\ wend = "deadline" /\ EndsWithDoneOf(chunks, r)) =>
         /\ ~task_result.done_seen
         /\ task_result.reply = chunks

\* C7, amended: the same exit codes; when the text ends with another request's
\* done line the request is not completed and the reply keeps every line up
\* to and including that done line, only trailing blank lines being trimmed.
C7_ExitCodeMatchesDoneSeen ==
  /\ ExitCodeFollowsOutcome
  /\ \A r \in ReqIds \ {req_id} :
       (task_result.set /\ wend = "deadline" /\ EndsWithDoneOf(chunks, r)) =>
         /\ ~task_result.done_seen
         /\ task_result.reply = SubSeq(chunks, 1, LastNonBlank(chunks))
         /\ EndsWithDoneOf(task_result.reply, r)

\* The deadline passed on text that ends with another request's done line and
\* a blank line; the client got exit_code 2 and the text without the blank.
C7_Witness ==
  /\ resp.sent /\ signalled
  /\ resp.exit_code = 2 /\ ~resp.done_seen
  /\ \E r \in ReqIds \ {req_id} : EndsWithDoneOf(chunks, r)
  /\ resp.reply # chunks

\* C8 as stated: the handler blocks at most timeout_s + 5 s, and whenever its
\* wait ended without done_event being signalled it answers exit_code 2 with
\* an empty reply.
C8_UnsignalledAnswersEmpty ==
  /\ spc = "waiting" => now <= timeout_s + WaitSlack
  /\ (resp.sent /\ ~signalled) => (resp.exit_code = 2 /\ resp.reply = <<>>)

\* C8, amended: the handler blocks at most timeout_s + 5 s; when its wait
\* ended without done_event being signalled it answers exit_code 2 with an
\* empty reply if task.result is still unset, and otherwise the result the
\* worker stored just before signalling.
C8_AbsentResultAnswersEmpty ==
  /\ spc = "waiting" => now <= timeout_s + WaitSlack
  /\ (resp.sent /\ ~signalled) =>
       \/ resp = TimeoutResponse
       \/ task_result.set /\ resp = ResultResponse(task_result)
  /\ (resp.sent /\ ~task_result.set) => resp = TimeoutResponse

\* The wait ran its full timeout_s + 5 s with no result stored, and the
\* client was answered exit_code 2 with an empty reply.
C8_Witness ==
  /\ resp = TimeoutResponse
  /\ ~signalled /\ ~task_result.set
  /\ now = timeout_s + WaitSlack

\* C21: a request whose timeout_s is negative is waited on without a time
\* bound, by the handler and by the worker's loop, so it is never answered
\* exit_code 2 because time ran out: neither by the handler's wait expiring
\* with no result stored, nor by the worker's loop ending at its deadline.
C21_NegativeTimeoutNeverTimesOut ==
  (timeout_s < 0 /\ resp.sent) =>
    /\ resp.exit_code # 2
    /\ signalled
    /\ wend # "deadline"

(***************************************************************************)
(* Properties of the daemon server (SpecServer).                           *)
(***************************************************************************)
\* The frame of connection c is a JSON object whose token is not the token
\* of the daemon it reached.
WrongToken(c) ==
  /\ frame[c].kind = "object"
  /\ frame[c].token # token[cdaemon[c]]

\* C9: a frame with a wrong token, whatever its type, is answered exit_code 1
\* "Unauthorized" and nothing else happens: request_handler is not called (so
\* no task is enqueued), no shutdown is started, and the daemon keeps serving;
\* a shutdown is only ever requested by a correctly authorized shutdown frame
\* or by the parent monitor.
C9_WrongTokenOnlyUnauthorized ==
  /\ \A c \in Conns :
       (cpc[c] = "done" /\ WrongToken(c)) =>
         /\ cresp[c] = Reply("ask.response", 1, "Unauthorized")
         /\ c \notin handler_called
         /\ c \notin shutdown_by
  /\ \A c \in handler_called \cup shutdown_by : ~WrongToken(c)
  /\ \A d \in shutdown_requested :
       \/ ~parent_alive /\ parent_pid[d] # 0
       \/ \E c \in shutdown_by :
            /\ cdaemon[c] = d
            /\ frame[c].type = "shutdown"
            /\ frame[c].token = token[d]

\* A shutdown frame with a wrong token was answered "Unauthorized"; the
\* daemon is still serving with no shutdown requested, and a connection it
\* accepted afterwards got its pong.
C9_Witness ==
  \E c1, c2 \in Conns :
    /\ c1 # c2
    /\ cpc[c1] = "done" /\ WrongToken(c1) /\ frame[c1].type = "shutdown"
    /\ cresp[c1].reply = "Unauthorized"
    /\ cdaemon[c2] = cdaemon[c1] /\ cprior[c2]
    /\ cpc[c2] = "done" /\ cresp[c2] = Reply("ask.pong", 0, "OK")
    /\ dpc[cdaemon[c1]] = "serving"
    /\ cdaemon[c1] \notin shutdown_requested

\* Daemon d got the single-instance lock at some time.
Acquired(d) == dpc[d] = "locked" \/ d \in bound_ever

\* C10: of two daemons with the same key that start concurrently exactly one
\* acquires the lock, binds a listener and publishes state; the other returns
\* 2 without binding a listener and without writing or deleting the state
\* file.
C10_ExactlyOneStarts ==
  /\ Cardinality(listener) <= 1
  /\ \A d \in Daemons :
       ret[d] = 2 => (d \notin bound_ever /\ d \notin state_touched)
  /\ \A d \in Daemons :
       (d \in bound_ever /\ dpc[d] \notin {"bound", "monitored"}) =>
         d \in state_touched
  /\ ((\A d \in Daemons : dpc[d] # "start") /\ shutdown_requested = {}) =>
       \E w \in Daemons :
         /\ Acquired(w)
         /\ \A d \in Daemons \ {w} : ret[d] = 2

\* The line of connection c is not a well-formed request: it is
\* not a JSON object, or it is one with the right token and a type that is
\* none of ping, shutdown and request.
IllFormed(c) ==
  \/ frame[c].kind = "malformed"
  \/ /\ frame[c].kind = "object"
     /\ TokenAccepted(frame[c], cdaemon[c])
     /\ frame[c].type = "other"

\* C19: a frame that is not a well-formed request is answered with exactly
\* one response, which carries exit_code 1, and it reaches no request
\* handler, so no task is enqueued and nothing is injected.
C19_IllFormedAnsweredWithError ==
  \A c \in Conns :
    cpc[c] = "done" /\ IllFormed(c) =>
      /\ cresp[c].sent
      /\ cresp[c].exit_code = 1
      /\ c \notin handler_called

(***************************************************************************)
(* Properties of one daemon's life in time (SpecLife, SpecLifeFair).       *)
(***************************************************************************)

\* serve_forever has returned 0 after a shutdown request.
CleanlyStopped == mpc = "returned" /\ retcode = 0

\* C11: for every server class, once the daemon has shut down cleanly (after
\* a shutdown message, the idle timeout or the parent's exit) its state file
\* is gone, and a state file that records the daemon's pid always belongs to
\* a daemon that is still running.
C11_StateFileNamesLiveDaemon ==
  /\ CleanlyStopped => statefile # Me
  /\ statefile = Me => Alive

\* The main thread is between the end of the serve loop and its return.
StopPhase == mpc \in {"stopped", "closing", "joining"}

ShutdownAnswered ==
  \E c \in Conns : hkind[c] = "shutdown" /\ hreply[c] = 0

\* C13: the exit_code 0 response to an authorized shutdown message is
\* written before the shutdown is started; the handler that started it ends
\* without waiting for the server; and serve_forever then returns 0, the
\* stop hook having run and the lock being released, also when other
\* handlers are still waiting on their tasks.
C13_ShutdownAnsweredThenReturns ==
  /\ [](requested_by["message"] > 0 => ShutdownAnswered)
  /\ \A c \in Conns : (hpc[c] = "replied") ~> (hpc[c] = "ended")
  /\ ShutdownAnswered ~> CleanlyStopped

\* C14: the idle monitor asks for shutdown at most once, and only after it
\* has read, under the activity lock, no active request and a last activity
\* at least idle_timeout_s old; with a timeout that is not positive, as it
\* is forced to be for a managed daemon or one with a parent pid, it never
\* asks.
C14_IdleShutdownOnlyWhenIdle ==
  /\ requested_by["idle"] <= 1
  /\ requested_by["idle"] = 1 =>
       /\ im_active = 0
       /\ im_idle_for >= idle_timeout_s
       /\ idle_timeout_s > 0
  /\ (managed \/ ppid # 0) /\ mpc \notin {"start", "locked"} =>
       idle_timeout_s = 0
  /\ idle_timeout_s <= 0 => requested_by["idle"] = 0

\* The idle monitor's request ended the serve loop of a daemon that had
\* served a connection.
C14_Witness ==
  /\ requested_by["idle"] = 1
  /\ mpc = "stopped"
  /\ \E c \in Conns : hpc[c] = "ended"

\* The serve loop has ended and the stop hook has run.
Stopped == mpc \in {"closing", "joining", "returned"}

C27_UnmanagedDaemonServes ==
  (variant = "askd" /\ ppid = 0 /\ ~managed) =>
    /\ pmonitor = "none"
    /\ mpc \notin {"off", "start", "locked"} => imon # "none"
    /\ mpc # "crashed"
    /\ mpc \in {"serving", "stopped"} => statefile # NoFile
    /\ retcode \in {NotReturned, 0}
    /\ retcode = 0 => shutdown_request

\* A connection handler is in flight: handle() has been entered and
\* finish() has not yet run.
InFlight(c) == hpc[c] \in {"handling", "replied", "finishing"}

\* C30: the idle monitor never starts the shutdown of the server while a
\* connection handler is in flight, however its check interleaves with
\* arriving connections.
C30_IdleShutdownNeverInFlight ==
  [][requested_by'["idle"] > requested_by["idle"] =>
       \A c \in Conns : ~InFlight(c)]_vars

(***************************************************************************)
(* Properties of ccb_protocol.py (SpecProtocol).                           *)
(***************************************************************************)

\* The text without a HARNESS_DONE line that is its last non-empty line.
WithoutHarness(t) ==
  LET i == LastNonBlank(t)
  IN  IF i > 0 /\ t[i] = HarnessLine THEN SubSeq(t, 1, i - 1) ELSE t

\* The last non-empty line, a trailing HARNESS_DONE line apart, is the done
\* line of r.
DoneAfterHarness(t, r) ==
  LET u == WithoutHarness(t)
      j == LastNonBlank(u)
  IN  j > 0 /\ u[j] = DoneLine(r)

\* C16: is_done_text(t, r) is true exactly when the last non-empty line of
\* t, once a trailing HARNESS_DONE line is removed, is the done line of r;
\* so it is false when that done line only appears earlier, when the final
\* done line names another id, and when t ends in HARNESS_DONE with no done
\* line before it.
C16_DoneIffFinalLineAfterHarness ==
  p_called = "is_done_text" =>
    p_result = DoneAfterHarness(p_text, p_req_id)

\* The text without trailing blank lines, without a trailing HARNESS_DONE
\* line and without a final done line of r.
WithoutTrailers(t, r) ==
  LET a == rstrip(WithoutHarness(t))
      n == Len(a)
  IN  IF n > 0 /\ a[n] = DoneLine(r) THEN rstrip(SubSeq(a, 1, n - 1)) ELSE a

\* C17: strip_done_text(t, r) is t with its trailing blank lines, a trailing
\* HARNESS_DONE line and the final done line of r removed and nothing else
\* changed; a final done line of another id stays.
C17_StripRemovesTrailers ==
  p_called = "strip_done_text" =>
    p_result = WithoutTrailers(p_text, p_req_id)

\* C18: the wrapped prompt begins with the request id line, a blank line
\* and the message, has the IMPORTANT: line and the reply hint, which is
\* "- Reply in English." unless another is given, and ends with the done
\* line of r and one newline.
C18_PromptShape ==
  p_called = "wrap_codex_prompt" =>
    LET m == rstrip(p_message)
        n == Len(p_result)
    IN  /\ p_result[1] = ReqIdLine(p_req_id)
        /\ p_result[2] = BlankLine
        /\ SubSeq(p_result, 3, 2 + Len(m)) = m
        /\ \E i \in 1..n : p_result[i] = ImportantLine
        /\ \E i \in 1..n : p_result[i] = HintLine(ReplyEnglish)
        /\ p_result[n] = DoneLine(p_req_id)

(***************************************************************************)
(* Properties of a request and its session record (SpecSession).           *)
(***************************************************************************)

\* C20: a request for a work-dir whose session record is missing, or is
\* there with active = false, when _handle_task loads it, ends with
\* exit_code 1 and no prompt is sent into a pane.
C20_NoSessionNothingInjected ==
  (g_pc \notin {"off", "start"} /\ ~g_session.active) =>
    /\ ~g_injected
    /\ g_pc = "done" => g_exit = 1

(***************************************************************************)
(* Properties of the tasks' req ids (SpecReqId).                           *)
(***************************************************************************)
\* re.fullmatch(r"[0-9a-f]{32}", rid)
IsReqIdFormat(r) ==
  /\ Len(r) = 2 * TokenBytes
  /\ \A i \in DOMAIN r : r[i] \in HexAlphabet

\* C22: the req id of every task, generated by make_req_id or supplied in the
\* request's req_id field, is a string of 32 lower-case hexadecimal digits,
\* and no two tasks submitted in one daemon process carry the same req id.
C22_ReqIdsHexAndUnique ==
  /\ \A i \in DOMAIN q_tasks : IsReqIdFormat(q_tasks[i].req_id)
  /\ \A i, j \in DOMAIN q_tasks :
       i # j => q_tasks[i].req_id # q_tasks[j].req_id

(***************************************************************************)
(* Properties of the session key (SpecKey).                                *)
(***************************************************************************)
\* The identifiers of a record in the order of their priority.
IdChain(r) ==
  <<<<"marker", r.marker>>, <<"pane", r.pane>>, <<"sid", r.sid>>,
    <<"file", SessionFile>>>>
\* The first of them that is not empty.
FirstNonEmpty(r) ==
  LET i == CHOOSE i \in 1..4 :
             /\ IdChain(r)[i][2] # ""
             /\ \A j \in 1..(i - 1) : IdChain(r)[j][2] = ""
  IN  IdChain(r)[i]

\* C23: the session key is the first non-empty of pane_title_marker, pane_id,
\* provider session id and the session file path; and the key a submit
\* computes after any one of these identifiers was rewritten (by ensure_pane
\* or otherwise) equals the key a submit computed before, so both requests
\* reach the same worker lane.
C23_KeyStableAcrossRotation ==
  /\ \A i \in DOMAIN s_keys : s_keys[i].key = FirstNonEmpty(s_keys[i].rec)
  /\ (Len(s_keys) = 2 /\ s_rot # "none") => s_keys[1].key = s_keys[2].key

(***************************************************************************)
(* Properties of _recv_with_deadline (SpecRecv).                           *)
(***************************************************************************)
\* C24: _recv_with_deadline returns as soon as the buffer holds a newline or
\* the peer has closed (then with the partial data), raises CCBTimeoutError
\* once the deadline has passed without a newline, blocks in one read no
\* longer than min(remaining, 1 s) so that the error comes no later than one
\* second after the deadline, and never returns more than max_bytes: it
\* raises ValueError instead.
C24_RecvWithDeadline ==
  /\ rv_pc = "returned" =>
       /\ HasNewline(rv_buf) \/ rv_closed
       /\ Len(rv_buf) <= rv_max_bytes
  /\ rv_pc = "recv" =>
       /\ ~HasNewline(rv_buf) /\ ~rv_closed
       /\ rv_waited <= RecvCap
       /\ rv_now <= rv_deadline
  /\ rv_pc = "CCBTimeoutError" =>
       /\ ~HasNewline(rv_buf)
       /\ rv_now >= rv_deadline
       /\ rv_now <= RecvCap +
            (IF rv_deadline >= RecvStart THEN rv_deadline ELSE RecvStart)
  /\ (rv_pc = "ValueError") <=> (Len(rv_buf) > rv_max_bytes)

\* The deadline passed after several reads, with bytes in the buffer and no
\* newline among them: CCBTimeoutError at the deadline.
C24_Witness ==
  /\ rv_pc = "CCBTimeoutError"
  /\ rv_buf # <<>>
  /\ rv_deadline > RecvStart + RecvCap
  /\ rv_now = rv_deadline

(***************************************************************************)
(* Properties of the log of one caskd request (SpecTaskFair).              *)
(***************************************************************************)
\* The [INFO] lines of the log that carry the request's req id.
InfoLines(what) ==
  {i \in DOMAIN wlog : wlog[i] = LogLine("INFO", what, req_id)}
StartLines == Cardinality(InfoLines("start"))
DoneLines == Cardinality(InfoLines("done"))

Proceeded(m) == ml_pc[m] \in {"write_state", "write_pid", "running"}

\* C26: of two maild starts that race exactly one proceeds to run, and writes
\* the state file and the pid file; the other one reports that a daemon is
\* already running and leaves those files untouched.
C26_OneMaildStarts ==
  /\ Cardinality({m \in MailProcs : Proceeded(m)}) <= 1
  /\ \A m \in MailProcs : ml_pc[m] = "refused" => ~ml_touched[m]
  /\ (\A m \in MailProcs : ml_pc[m] \in {"running", "refused"}) =>
       \E m \in MailProcs :
         /\ ml_pc[m] = "running"
         /\ mail_state_file = m /\ mail_pid_file = m

(***************************************************************************)
(* Properties of the reply and the transcript (SpecReply).                 *)
(***************************************************************************)
\* C28: the reply of a request is made only of assistant text that entered
\* the transcript after the request's capture_state cursor, and of no text
\* that belongs to an earlier request, also after the escape hatch has placed
\* the reader anew; once the anchor is seen, only of text after the anchor.
C28_ReplyOnlyOwnText ==
  \A i \in DOMAIN x_chunks :
    /\ x_chunks[i].at > x_cursor
    /\ x_chunks[i].entry.owner = "mine"

(***************************************************************************)
(* Properties of the queue of one session key (SpecQueue).                 *)
(***************************************************************************)
\* C29: a prompt is sent to the pane only for a task whose submitter still
\* waits for its result: a task whose submitter has answered exit_code 2
\* because its wait expired is not sent later.
C29_SentOnlyWhileSubmitterWaits ==
  [][\A t \in QueuedTasks :
       (t \in qt_sent' /\ t \notin qt_sent) => qt_handler[t] = "waiting"]_vars

\* The session-id filter is dropped in this step.
FilterDropped == x_filter /\ ~x_filter'

\* C31: during a Codex task the session-id filter is dropped at most once,
\* and only when a filter was bound and no transcript event has been
\* observed for the task when the grace of about 1.5 s has expired; once an
\* event has been observed within the grace window, or with no filter bound,
\* the reader is never rebound.
C31_FilterDroppedOnlyWithoutEvents ==
  /\ [][~x_filter => ~x_filter']_vars
  /\ [][x_rebounded' # x_rebounded => FilterDropped]_vars
  /\ [][FilterDropped =>
          ~x_rebounded /\ x_rebounded' /\ x_now >= AnchorGrace]_vars
  /\ [][x_saw_in_grace => x_rebounded' = x_rebounded]_vars

(***************************************************************************)
(* Properties of the escape hatch's cursor (SpecTail).                     *)
(***************************************************************************)
\* C32: when the escape hatch fires, the new cursor is max(0, size -
\* tail_bytes) in the latest log, with tail_bytes from
\* CCB_CASKD_REBIND_TAIL_BYTES or 2 MiB, and it is never the end of a log
\* that is not empty.
C32_CursorNeverAtEof ==
  tl_pc = "placed" /\ tl_log /\ tl_stat_ok =>
    /\ tl_tail_bytes = tail_bytes_of(tl_env)
    /\ tl_offset = MaxZero(tl_size - tl_tail_bytes)
    /\ tl_size > 0 => tl_offset < tl_size

(***************************************************************************)
(* Properties of the interrupt check (SpecPane).                           *)
(***************************************************************************)
\* The banner stands in the text after a marker of this task.
BannerAfterMarker(text) ==
  \E i, j \in DOMAIN text :
    i < j /\ text[i] = "req_id" /\ text[j] = "banner"

\* C33: a Codex task is abandoned as interrupted only if the captured pane
\* text holds the interruption banner after this task's marker; a banner
\* with no marker of this task before it never abandons the task.
C33_AbandonedOnlyAfterMarker ==
  pn_pc = "abandoned" => BannerAfterMarker(pn_text)

(***************************************************************************)
(* Properties of the Gemini reader with an unknown baseline (SpecGemini).  *)
(***************************************************************************)
\* The last message of the file is a complete gemini reply written after
\* the baseline stat.
FreshReplyLast ==
  /\ LastIsReply(gm_msgs)
  /\ \/ Len(gm_msgs) > Len(gm_at_stat)
     \/ gm_at_stat[Len(gm_msgs)] # gm_msgs[Len(gm_msgs)]
\* The last message of the file was there when the baseline stat was taken.
OldLast ==
  /\ gm_msgs # <<>>
  /\ Len(gm_msgs) = Len(gm_at_stat)
  /\ gm_at_stat[Len(gm_msgs)] = gm_msgs[Len(gm_msgs)]
\* The first read of the wait loop that succeeds, with an unknown baseline.
FirstRead == gm_pc = "wait" /\ gm_unknown /\ (gm_pc' = "returned" \/ ~gm_unknown')

\* C34: with an unknown baseline, a complete gemini reply that the first
\* successful read finds and that was written after the baseline stat is
\* returned as the new message and not taken into the baseline; a last
\* message that was there when the baseline stat was taken is history.
C34_UnknownBaselineReply ==
  /\ [][FirstRead /\ FreshReplyLast =>
          gm_pc' = "returned" /\ gm_result' = Len(gm_msgs)]_vars
  /\ [][FirstRead /\ OldLast => gm_pc' # "returned"]_vars

(***************************************************************************)
(* Properties of the OpenCode task and its session lock (SpecOpenCode).    *)
(***************************************************************************)
\* C35: an OpenCode task sends its prompt and waits for the reply only
\* while it holds the lock session:<session_key>; when the lock is not
\* obtained within the bounded timeout the task ends with exit_code 1 and
\* nothing sent; the lock is released on every way out of the task.
C35_InjectsOnlyUnderLock ==
  /\ oc_pc \in {"load", "loop", "finally"} => oc_holder = "daemon"
  /\ oc_injected > 0 => oc_end # "lock_timeout"
  /\ oc_injected <= 1
  /\ oc_end = "lock_timeout" => oc_exit_code = 1 /\ oc_injected = 0
  /\ oc_lock_timeout \in LockTimeoutFloor..LockTimeoutCap
  /\ oc_pc = "done" => oc_holder # "daemon"

\* The task has sent its prompt under the lock, an exception ended its
\* loop, and the direct-mode client could take the lock afterwards.
C35_Witness ==
  /\ oc_pc = "done"
  /\ oc_injected = 1
  /\ oc_end = "exception"
  /\ oc_holder = "direct"

(***************************************************************************)
(* Properties of the autoloop supervisor (SpecAutoloop).                   *)
(***************************************************************************)
\* A step in which _run_once_locked returns or enters _trigger.
Evaluates == al_pc = "eval" /\ al_pc' # "eval"
EntersTrigger == al_pc' = "sleep5"
SomeStepOpen == st_steps = "todo"
CooldownElapsed == al_clock - sv_last_ts >= CooldownS
CursorCondition ==
  \/ sv_last_cursor # Missing /\ sv_last_cursor # st_cursor
  \/ sv_last_cursor = Missing /\ al_mode = "once"

\* C36: an evaluation injects a trigger iff state.json exists, the cursor is
\* not "none" and some step or substep is todo or doing, the cooldown has
\* elapsed, and the stored last cursor differs from the current one or none
\* is stored and trigger_on_missing_state is true; with the cursor "none" or
\* no work remaining it records task_complete=true and injects nothing.
C36_TriggerIff ==
  /\ [][Evaluates =>
          (EntersTrigger <=>
             /\ st_exists
             /\ st_cursor # NoCursor /\ SomeStepOpen
             /\ CooldownElapsed
             /\ CursorCondition)]_vars
  /\ [][Evaluates /\ st_exists /\ (st_cursor = NoCursor \/ ~SomeStepOpen) =>
          sv_task_complete' /\ ~EntersTrigger]_vars

\* C36, amended: the same with two more conditions of the code: a pane id
\* must be known (without one the evaluation fails and writes nothing),
\* and a state.json whose steps is not a list counts as work remaining.
C36_TriggerIffWithPaneAndSteps ==
  /\ [][Evaluates =>
          (EntersTrigger <=>
             /\ st_exists /\ al_pane
             /\ st_cursor # NoCursor
             /\ SomeStepOpen \/ st_steps = "notalist"
             /\ CooldownElapsed
             /\ CursorCondition)]_vars
  /\ [][Evaluates /\ st_exists /\ al_pane
          /\ (st_cursor = NoCursor \/ st_steps = "alldone") =>
          sv_task_complete' /\ sv_last_cursor' = st_cursor /\ ~EntersTrigger]_vars

\* An evaluation of the daemon has entered _trigger because the cursor in
\* state.json differs from the stored one.
C36_Witness ==
  /\ al_pc = "sleep5" /\ al_mode = "daemon"
  /\ sv_last_cursor # Missing /\ sv_last_cursor # al_cursor
  /\ al_clock - sv_last_ts >= CooldownS

\* C37: across evaluations and daemon iterations, the daemon's first
\* observation of state.json and restarts of the supervisor included, two
\* successive /tr injections are never less than cooldown_s seconds apart.
C37_InjectionsCooldownApart ==
  [][al_last_tr' # al_last_tr /\ al_last_tr # NeverTr =>
       al_last_tr' - al_last_tr >= CooldownS]_vars

\* What one whole trigger does, in order, for a usage percent.
TriggerSteps(usage) ==
  IF usage > Threshold
  THEN <<"sleep5", "clear", "sleep2", "tr", "write">>
  ELSE <<"sleep5", "tr", "write">>
IsPrefixOf(s, t) == Len(s) <= Len(t) /\ \A i \in 1..Len(s) : s[i] = t[i]

\* C38: every trigger performs, in this order: a 5 s sleep; /clear iff the
\* usage percent is strictly greater than the threshold, followed by a 2 s
\* sleep; exactly one /tr; and only then autoloop_state.json is rewritten
\* with the evaluated cursor, task_complete=false and last_trigger_ts=now.
C38_TriggerOrder ==
  /\ [](IsPrefixOf(al_events, TriggerSteps(al_usage)))
  /\ [][al_pc = "write" /\ al_pc' # "write" =>
          /\ Append(al_events, "write") = TriggerSteps(al_usage)
          /\ sv_last_cursor' = al_cursor
          /\ sv_task_complete' = FALSE
          /\ sv_last_ts' = al_clock']_vars
  /\ [][(al_pc \in {"sleep5", "clear", "sleep2", "tr"}) => svVars' = svVars]_vars

\* A trigger with /clear has run to its end while the caller moved the
\* cursor on: the file holds the cursor that was evaluated.
C38_Witness ==
  /\ al_events = <<"sleep5", "clear", "sleep2", "tr", "write">>
  /\ al_usage > Threshold
  /\ sv_last_cursor = al_cursor /\ st_cursor # al_cursor
  /\ ~sv_task_complete /\ sv_last_ts = al_last_tr /\ sv_last_ts = al_clock

(***************************************************************************)
(* Properties of the autoloop daemon under fairness (SpecAutoloopFair).    *)
(***************************************************************************)
\* The daemon runs, work remains, and the cursor of state.json is not the
\* one recorded in autoloop_state.json: the cursor has advanced.
CursorAdvanced ==
  /\ al_pc # "off"
  /\ st_exists
  /\ st_cursor # NoCursor
  /\ st_steps \in {"todo", "notalist"}
  /\ sv_last_cursor # st_cursor

\* C39: in daemon mode, whenever the cursor in state.json advances while
\* work remains, a /tr trigger for that cursor eventually follows (or the
\* cursor moves on or the work ends), also when the advance was first seen
\* inside the cooldown and state.json is not modified again.
C39_AdvanceEventuallyTriggered ==
  CursorAdvanced ~> (al_tr_cursor = st_cursor \/ ~CursorAdvanced)

(***************************************************************************)
(* Properties of the Droid JSONL tailer (SpecDroid).                       *)
(***************************************************************************)
\* The bytes of the bound file between the offset it was bound at and the
\* offset of the state.
Consumed == SubSeq(dr_files[dr_path], dr_cap + 1, dr_offset)
Undisturbed == dr_captured /\ dr_path # NoSessionPath /\ ~dr_shrunk

\* C40: across any sequence of reads and any chunking of the appended
\* bytes, every complete line after the captured offset is parsed exactly
\* once; a trailing partial line waits in the carry until its newline has
\* arrived; offset and carry never skip or re-read bytes, unless the file
\* shrinks or another session file is bound.
C40_LinesParsedOnce ==
  Undisturbed =>
    /\ dr_cap <= dr_offset /\ dr_offset <= Len(dr_files[dr_path])
    /\ \A i \in 1..Len(dr_carry) : dr_carry[i] # "nl"
    /\ dr_carry = split(Consumed)[Len(split(Consumed))]
    /\ dr_parsed = SelectSeq(SubSeq(split(Consumed), 1, Len(split(Consumed)) - 1),
                             NotEmptyLine)

\* A line has been parsed that was put together from the carry of an
\* earlier read and the bytes of a later one, and the next partial line is
\* waiting in the carry.
C40_Witness ==
  /\ Undisturbed /\ dr_joined /\ Len(dr_parsed) = 1
  /\ dr_offset = Len(dr_files[dr_path]) /\ dr_carry # <<>>

====
